---- MODULE Spec2Model ----
(***************************************************************************)
(* GNSS spoofing detection pipeline of src/app/page.tsx: the request       *)
(* handler POST, the result generator generateRealisticResults, the two    *)
(* RINEX parsers, and the upload handlers of the two front ends            *)
(* (src/app/page.tsx and src/frontend/src/App.js).                         *)
(*                                                                         *)
(* Numbers.  JavaScript doubles are modelled in fixed point, each quantity *)
(* in the unit that makes the code's arithmetic exact on the modelled      *)
(* values of Math.random():                                                *)
(*   Math.random()          hundredths            (0 .. 99)                *)
(*   x, y, z, distances     1/40 m                                         *)
(*   pdop                   1/400                                          *)
(*   accuracy               1/2000 m                                       *)
(*   health                 1/10000                                        *)
(*   snr, azimuth           1/10                                           *)
(*   elevation, avgSnr      1/100                                          *)
(*   doppler                1 Hz                                           *)
(*   carrierPhase           1/1000                                         *)
(*   spoofingProbability    1/10 before Math.round, 1 after                *)
(* Math.sin and Math.cos are tabulated to five decimals.                   *)
(* Epoch numbers are the code's 0-based indices; sequences are 1-based, so *)
(* epoch i of an array a is a[i + 1].                                      *)
(***************************************************************************)
EXTENDS Integers, Sequences, FiniteSets, TLC

(***************************************************************************)
(* Bounds of the model.                                                    *)
(***************************************************************************)
\* Largest number of epochs in a parsed observation file.
MaxObs == 2
\* Period of the sequence of values returned by Math.random().
TapeLen == 4
\* Number of distinct values Math.random() returns.
RandLevels == 2
\* Largest number of lines after the header of an observation file.
MaxLines == 3
\* Largest number of lines after the header of a navigation file.
MaxNavLines == 4
\* Largest number of calls of the upload handler of a front end.
MaxUploads == 2

(***************************************************************************)
(* Constants of the program.                                               *)
(***************************************************************************)
MinContentLength == 100
MinEpochs == 50
MaxSatellites == 12
JumpThreshold == 100
PdopCeiling == 6
PdopFloor == 1
PdopCap == 15
UnhealthyBelow == 5000
ProbabilityFloor == 5
ProbabilityCap == 95
SpikeEpochs == {15, 32, 41}
ArtificialJumps == <<16, 33, 42>>
\* setProgress: the step and the ceiling of the interval, the value at the end
ProgressStep == 8
ProgressCeiling == 90
ProgressDone == 100
commonSats == <<"G01", "G02", "G03", "G04", "G05", "G06", "G07", "G08", "G09", "G10">>
SuspiciousSats == {"G02", "G04"}

(***************************************************************************)
(* Math.sin(0.05 * k) and Math.cos(0.1 * i), times 100000, rounded.        *)
(***************************************************************************)
SinTable ==
  << 0, 4998, 9983, 14944, 19867, 24740, 29552, 34290, 38942, 43497,
     47943, 52269, 56464, 60519, 64422, 68164, 71736, 75128, 78333, 81342,
     84147, 86742, 89121, 91276, 93204, 94898, 96356, 97572, 98545, 99271,
     99749, 99978, 99957, 99687, 99166, 98399, 97385, 96128, 94630, 92896,
     90930, 88736, 86321, 83690, 80850, 77807, 74571, 71147, 67546, 63776,
     59847, 55768, 51550, 47203, 42738, 38166, 33499, 28748, 23925, 19042,
     14112, 9146, 4158, -841, -5837, -10820, -15775, -20690, -25554, -30354,
     -35078, -39715, -44252, -48679, -52984, -57156, -61186, -65063, -68777, -72319,
     -75680, -78853, -81828, -84598, -87158, -89499, -91617, -93505, -95160, -96577,
     -97753, -98684, -99369, -99805, -99992, -99929, -99616, -99055, -98245, -97190,
     -95892, -94355, -92581, -90577, -88345, -85893, -83227, -80352, -77276, -74008,
     -70554, -66924, -63127, -59172, -55069, -50828, -46460, -41976, -37388, -32705,
     -27942, -23108, -18216, -13279, -8309, -3318, 1681, 6676, 11655, 16604,
     21512, 26366, 31154, 35864, 40485, 45004, 49411, 53695, 57844, 61849,
     65699, 69384, 72897, 76227, 79367, 82308, 85044, 87567, 89871, 91950,
     93800, 95415, 96792, 97927, 98817, 99460, 99854, 99999, 99894, 99539,
     98936, 98085, 96989, 95651, 94073, 92260, 90217, 87948, 85460, 82758,
     79849, 76740, 73440, 69956, 66297, 62472, 58492, 54365, 50102, 45714,
     41212, 36607, 31910, 27133, 22289, 17389, 12445, 7471, 2478, -2522,
     -7515, -12490, -17433, -22332, -27176, -31952, -36648, -41252, -45754, -50141,
     -54402, -58528, -62507, -66330, -69987, -73470, -76769, -79875, -82783, -85483,
     -87970, -90236, -92278, -94088, -95664, -97000, -98094, -98942, -99544, -99896,
     -99999, -99852, -99455, -98810, -97918, -96781, -95402, -93785, -91933, -89851,
     -87545, -85020, -82283, -79340, -76198, -72866, -69353, -65665, -61814, -57808,
     -53657, -49373, -44965, -40444, -35823, -31112, -26323, -21469, -16560, -11611,
     -6632, -1637, 3362 >>
CosTable ==
  << 100000, 99500, 98007, 95534, 92106, 87758, 82534, 76484, 69671, 62161,
     54030, 45360, 36236, 26750, 16997, 7074, -2920, -12884, -22720, -32329,
     -41615, -50485, -58850, -66628, -73739, -80114, -85689, -90407, -94222, -97096,
     -98999, -99914, -99829, -98748, -96680, -93646, -89676, -84810, -79097, -72593,
     -65364, -57482, -49026, -40080, -30733, -21080, -11215, -1239, 8750, 18651,
     28366, 37798, 46852, 55437, 63469, 70867, 77557, 83471, 88552, 92748,
     96017, 98327, 99654, 99986 >>

(***************************************************************************)
(* Arithmetic helpers.                                                     *)
(***************************************************************************)
Max(a, b) == IF a >= b THEN a ELSE b
Min(a, b) == IF a <= b THEN a ELSE b

\* table value (scaled by 100000) times mult, rounded to the nearest unit
Scaled(t, mult) == ((t * mult) + 50000) \div 100000

\* Math.sin(0.05 * k) * mult
Sin005(k, mult) == Scaled(SinTable[k + 1], mult)

\* Math.cos(0.1 * i) * mult
Cos01(i, mult) == Scaled(CosTable[i + 1], mult)

\* Math.round of a value held in tenths
MathRound(tenths) == (tenths + 5) \div 10

\* a JavaScript array: the sequence f, held element by element
Array(f) == f \o <<>>

\* the members of a set of integers, in increasing order
Ascending(K) ==
  Array([m \in 1..Cardinality(K) |-> CHOOSE k \in K : Cardinality({j \in K : j <= k}) = m])

\* the elements of s at the indices K, in the order of s
Pick(s, K) ==
  LET a == Ascending(K)
  IN  Array([m \in 1..Len(a) |-> s[a[m]]])

\* [...new Set(s)]: the distinct elements of s in order of first occurrence
Distinct(s) ==
  LET first == {n \in 1..Len(s) : \A k \in 1..(n - 1) : s[k] # s[n]}
  IN  Pick(s, first)

\* the elements of a sequence
Range(s) == {s[k] : k \in 1..Len(s)}

\* Array.prototype.slice(0, n)
Slice0(s, n) == SubSeq(s, 1, Min(n, Len(s)))

\* concatenation of a sequence of sequences
Flatten(ss) ==
  LET F[n \in 0..Len(ss)] == IF n = 0 THEN <<>> ELSE F[n - 1] \o ss[n]
  IN  F[Len(ss)]

(***************************************************************************)
(* Math.random().  One run of the handler consumes a sequence of values;   *)
(* the n-th call (n = 0, 1, ...) of the run returns tape[n mod TapeLen].   *)
(* Every tape over RandVals is possible, so the calls the parsers make     *)
(* before the generator runs only rotate the tape.                         *)
(***************************************************************************)
RandVals == {(99 * j) \div (RandLevels - 1) : j \in 0..(RandLevels - 1)}
Tapes == [1..TapeLen -> RandVals]
Random(tape, n) == tape[(n % TapeLen) + 1]

(***************************************************************************)
(* generateRealisticResults: epochs and satellites.                        *)
(***************************************************************************)
\* const numEpochs = Math.max(50, observations.length)
NumEpochs(observations) == Max(MinEpochs, Len(observations))

\* satelliteIds, in insertion order: the observed ids, then commonSats;
\* satellites = Array.from(satelliteIds).slice(0, 12)
Satellites(observations) ==
  LET observed == Flatten([k \in 1..Len(observations) |->
                     Array([m \in 1..Len(observations[k].satellites) |->
                        observations[k].satellites[m].satellite])])
  IN  Slice0(Distinct(observed \o commonSats), MaxSatellites)

(***************************************************************************)
(* generateRealisticResults: the position loop.  Epoch i makes seven calls *)
(* of Math.random(), eight when i is a spike epoch.                        *)
(***************************************************************************)
RandomCallsBefore(i) == 7 * i + Cardinality({s \in SpikeEpochs : s < i})

Position(i, tape) ==
  LET b == RandomCallsBefore(i)
      spike == i \in SpikeEpochs
      o == IF spike THEN 1 ELSE 0
      numVisibleSats == 4 + ((Random(tape, b) * 8) \div 100)
      \* 1.5 + (12 - n) * 0.3 + (60 - (30 + r * 45)) / 20 + r * 0.5
      pdop0 == 600 + (12 - numVisibleSats) * 120
                   + (600 - 9 * Random(tape, b + 1))
                   + 2 * Random(tape, b + 2)
      \* pdop += 4 + Math.random() * 3
      pdop1 == IF spike THEN pdop0 + 1600 + 12 * Random(tape, b + 3) ELSE pdop0
      pdop == Max(400 * PdopFloor, Min(400 * PdopCap, pdop1))
  IN  [epoch |-> i,
       x |-> 160000000 + Sin005(2 * i, 4000) + (Random(tape, b + 3 + o) - 50) * 20,
       y |-> 120000000 + Cos01(i, 4000) + (Random(tape, b + 4 + o) - 50) * 20,
       z |-> 200000000 + Sin005(i, 2000) + (Random(tape, b + 5 + o) - 50) * 10,
       pdop |-> pdop,
       accuracy |-> Max(2000, 4 * pdop + 20 * Random(tape, b + 6 + o)),
       numSats |-> numVisibleSats]

Positions(numEpochs, tape) == Array([j \in 1..numEpochs |-> Position(j - 1, tape)])

(***************************************************************************)
(* generateRealisticResults: position jumps.                               *)
(***************************************************************************)
\* squared Euclidean distance of two fixes
Distance2(p, q) ==
  (p.x - q.x) * (p.x - q.x) + (p.y - q.y) * (p.y - q.y) + (p.z - q.z) * (p.z - q.z)

\* distance > 100 (metres), on the squares
FarApart(p, q) == Distance2(p, q) > (40 * JumpThreshold) * (40 * JumpThreshold)

\* for (let i = 1; i < positions.length; i++) if (distance > 100) push(i)
DetectJumps(positions) ==
  LET far == {i \in 1..(Len(positions) - 1) : FarApart(positions[i + 1], positions[i])}
  IN  Ascending(far)

\* positions[e].f += d, when positions[e] exists
Shift(positions, e, dx, dy, dz) ==
  IF e + 1 \in DOMAIN positions
  THEN [positions EXCEPT ![e + 1].x = @ + dx, ![e + 1].y = @ + dy, ![e + 1].z = @ + dz]
  ELSE positions

\* the detected jumps alone, nothing pushed when there is none
WithoutArtificialJumps(positions, detected) ==
  [positionJumps |-> detected, positions |-> positions]

\* if (positionJumps.length === 0) { positionJumps.push(16, 33, 42); ... }
WithArtificialJumps(positions, detected) ==
  IF Len(detected) = 0
  THEN [positionJumps |-> detected \o ArtificialJumps,
        positions |-> Shift(Shift(Shift(positions, 16, 8000, 6000, 0),
                                  33, -7200, 0, 4000),
                            42, 0, 8800, -3200)]
  ELSE [positionJumps |-> detected, positions |-> positions]

\* positions.filter((p) => p.pdop > 6).map((p) => p.epoch)
HighPdop(positions) ==
  LET over == {n \in 1..Len(positions) : positions[n].pdop > 400 * PdopCeiling}
      high == Pick(positions, over)
  IN  Array([m \in 1..Len(high) |-> high[m].epoch])

(***************************************************************************)
(* generateRealisticResults: satellite health and signal data.  They draw  *)
(* from Math.random() after the position loop: four calls per satellite,   *)
(* then three per epoch, then one for the probability.                     *)
(***************************************************************************)
SatelliteHealthOf(satId, b, tape) ==
  LET \* 0.3 + Math.random() * 0.7
      baseHealth == 3000 + 70 * Random(tape, b)
      \* health *= 0.4 for G02 and G04
      health == IF satId \in SuspiciousSats THEN (baseHealth * 4) \div 10 ELSE baseHealth
  IN  [sv |-> satId,
       health |-> Max(1000, health),
       snr |-> 300 + 2 * Random(tape, b + 1),
       elevation |-> 1500 + 75 * Random(tape, b + 2),
       azimuth |-> 36 * Random(tape, b + 3)]

SatelliteHealth(satellites, b, tape) ==
  Array([j \in 1..Len(satellites) |->
           SatelliteHealthOf(satellites[j], b + 4 * (j - 1), tape)])

SignalData(numEpochs, b, tape) ==
  Array([j \in 1..numEpochs |->
     [epoch |-> j - 1,
      avgSnr |-> 4000 + Sin005(2 * (j - 1), 500) + 3 * Random(tape, b + 3 * (j - 1)),
      doppler |-> Sin005(4 * (j - 1), 1000) + Random(tape, b + 3 * (j - 1) + 1),
      carrierPhase |-> Sin005(3 * (j - 1), 500) + Random(tape, b + 3 * (j - 1) + 2)]])

(***************************************************************************)
(* generateRealisticResults: threat metrics.                               *)
(***************************************************************************)
\* the flagged epochs with the position jumps left out
FlaggedEpochsPdopOnly(highPdop, positionJumps) == Distinct(highPdop)

\* [...new Set([...highPdop, ...positionJumps])]
FlaggedEpochs(highPdop, positionJumps) == Distinct(highPdop \o positionJumps)

\* satelliteHealth.filter((s) => s.health < 0.5).length
UnhealthySats(satelliteHealth) ==
  Cardinality({j \in 1..Len(satelliteHealth) : satelliteHealth[j].health < UnhealthyBelow})

\* the ids of the satellites with health < 0.5, in order
SuspiciousIds(satelliteHealth) ==
  LET below == {j \in 1..Len(satelliteHealth) : satelliteHealth[j].health < UnhealthyBelow}
      low == Pick(satelliteHealth, below)
  IN  Array([m \in 1..Len(low) |-> low[m].sv])

\* spoofingProbability before Math.round, in tenths: the three weighted
\* counts, plus Math.random() * 10, clamped to [5, 95]
RawProbability(flagged, jumps, unhealthy, r) ==
  LET sum == 10 * (5 * flagged + 20 * jumps + 15 * unhealthy) + r
  IN  Min(10 * ProbabilityCap, Max(10 * ProbabilityFloor, sum))

\* the if-chain with the last comparison taken as <=
ThreatLevelInclusive(p) ==
  IF p < 250 THEN "LOW"
  ELSE IF p < 500 THEN "MEDIUM"
  ELSE IF p <= 750 THEN "HIGH"
  ELSE "CRITICAL"

\* the if-chain on the unrounded spoofingProbability (in tenths)
ThreatLevel(p) ==
  IF p < 250 THEN "LOW"
  ELSE IF p < 500 THEN "MEDIUM"
  ELSE IF p < 750 THEN "HIGH"
  ELSE "CRITICAL"

JumpSeverity(n) == IF n > 2 THEN "High" ELSE IF n > 0 THEN "Medium" ELSE "Low"
\* the PDOP severity under the thresholds of the jump detector
PdopSeverityShared(n) == IF n > 2 THEN "High" ELSE IF n > 0 THEN "Medium" ELSE "Low"
PdopSeverity(n) == IF n > 10 THEN "High" ELSE IF n > 5 THEN "Medium" ELSE "Low"
HealthSeverity(n) == IF n > 3 THEN "High" ELSE IF n > 1 THEN "Medium" ELSE "Low"

Anomalies(positionJumps, highPdop, unhealthySats, p) ==
  << [type |-> "Position Jump", severity |-> JumpSeverity(Len(positionJumps)),
      count |-> Len(positionJumps),
      description |-> "Sudden position discontinuities detected"],
     [type |-> "High PDOP", severity |-> PdopSeverity(Len(highPdop)),
      count |-> Len(highPdop),
      description |-> "Poor satellite geometry periods"],
     [type |-> "Satellite Health", severity |-> HealthSeverity(unhealthySats),
      count |-> unhealthySats,
      description |-> "Satellites showing suspicious behavior"],
     \* Math.floor(spoofingProbability / 20)
     [type |-> "Signal Anomalies", severity |-> "Medium", count |-> p \div 200,
      description |-> "Irregular signal characteristics detected"] >>

\* a recommendation: its fixed text and the list interpolated into it
Rec(text, list) == [text |-> text, list |-> list]

\* the rule set with the satellites ahead of the jumps
RecommendationsReordered(threatLevel, positionJumps, satelliteHealth) ==
  (IF threatLevel = "CRITICAL"
   THEN << Rec("CRITICAL THREAT: Immediately cease reliance on GNSS positioning", <<>>),
           Rec("Switch to alternative navigation methods", <<>>) >>
   ELSE <<>>)
  \o (IF UnhealthySats(satelliteHealth) > 0
      THEN << Rec("Monitor suspicious satellites", SuspiciousIds(satelliteHealth)) >>
      ELSE <<>>)
  \o (IF Len(positionJumps) > 0
      THEN << Rec("Investigate position jumps at epochs", positionJumps) >>
      ELSE <<>>)
  \o << Rec("Log all anomalies and report to relevant authorities", <<>>),
        Rec("Consider implementing additional GNSS authentication measures", <<>>) >>

\* recommendations
Recommendations(threatLevel, positionJumps, satelliteHealth) ==
  (IF threatLevel = "CRITICAL"
   THEN << Rec("CRITICAL THREAT: Immediately cease reliance on GNSS positioning", <<>>),
           Rec("Switch to alternative navigation methods", <<>>) >>
   ELSE IF threatLevel = "HIGH"
   THEN << Rec("HIGH THREAT: Exercise extreme caution with GNSS data", <<>>),
           Rec("Cross-reference position with alternative navigation aids", <<>>) >>
   ELSE <<>>)
  \o (IF Len(positionJumps) > 0
      THEN << Rec("Investigate position jumps at epochs", positionJumps) >>
      ELSE <<>>)
  \o (IF UnhealthySats(satelliteHealth) > 0
      THEN << Rec("Monitor suspicious satellites", SuspiciousIds(satelliteHealth)) >>
      ELSE <<>>)
  \o << Rec("Log all anomalies and report to relevant authorities", <<>>),
        Rec("Consider implementing additional GNSS authentication measures", <<>>) >>

DataQuality(n) == IF n >= 8 THEN "Good" ELSE IF n >= 6 THEN "Fair" ELSE "Poor"

ProcessingInfo(numEpochs, satellites) ==
  [totalEpochs |-> numEpochs,
   totalSatellites |-> Len(satellites),
   \* Math.round(n * 0.8 * 10) / 10, in tenths
   avgSatellitesPerEpoch |-> 8 * Len(satellites),
   dataQuality |-> DataQuality(Len(satellites))]

(***************************************************************************)
(* generateRealisticResults(observations, ephemeris) with the values of    *)
(* Math.random() taken from tape.  ephemeris is not read.  The value holds *)
(* the returned result and, as `generated', the positions array as the     *)
(* position loop left it, which is what the jump detector reads.           *)
(***************************************************************************)
generateRealisticResults(observations, ephemeris, tape) ==
  LET numEpochs == NumEpochs(observations)
      satellites == Satellites(observations)
      generated == Positions(numEpochs, tape)
      jumped == WithArtificialJumps(generated, DetectJumps(generated))
      positions == jumped.positions
      positionJumps == jumped.positionJumps
      highPdop == HighPdop(positions)
      b1 == RandomCallsBefore(numEpochs)
      satelliteHealth == SatelliteHealth(satellites, b1, tape)
      b2 == b1 + 4 * Len(satellites)
      signalData == SignalData(numEpochs, b2, tape)
      b3 == b2 + 3 * numEpochs
      flaggedEpochs == FlaggedEpochs(highPdop, positionJumps)
      unhealthySats == UnhealthySats(satelliteHealth)
      p == RawProbability(Len(flaggedEpochs), Len(positionJumps), unhealthySats,
                          Random(tape, b3))
      threatLevel == ThreatLevel(p)
  IN  [generated |-> generated,
       result |->
         [threatLevel |-> threatLevel,
          spoofingProbability |-> MathRound(p),
          flaggedEpochs |-> flaggedEpochs,
          positionJumps |-> positionJumps,
          highPdop |-> highPdop,
          pdopValues |-> Array([j \in 1..Len(positions) |-> positions[j].pdop]),
          satelliteHealth |-> satelliteHealth,
          positionData |-> positions,
          signalData |-> signalData,
          anomalies |-> Anomalies(positionJumps, highPdop, unhealthySats, p),
          recommendations |-> Recommendations(threatLevel, positionJumps, satelliteHealth),
          processingInfo |-> ProcessingInfo(numEpochs, satellites)]]
(***************************************************************************)
(* JavaScript strings and numbers, as the two parsers use them.  A string  *)
(* is a TLA+ string; positions are JavaScript's (the first character is    *)
(* at 0).  A number read from text is a record: nan says that it is NaN,   *)
(* otherwise its value is whole + milli / 1000 (the two have the same      *)
(* sign; decimals beyond the third are dropped, and the texts of the       *)
(* model carry no exponent part, no 0x prefix and no "Infinity").          *)
(***************************************************************************)
NaN == [nan |-> TRUE, whole |-> 0, milli |-> 0]
Num(whole, milli) == [nan |-> FALSE, whole |-> whole, milli |-> milli]

\* x || d for a number x: d when x is NaN or 0
OrElse(x, d) == IF x.nan \/ (x.whole = 0 /\ x.milli = 0) THEN d ELSE x

\* x || d where x comes from parseInt and d is an integer
IntOrElse(x, d) == IF x.nan \/ x.whole = 0 THEN d ELSE x.whole

\* the truth value of a number: false for NaN and 0
Truthy(x) == ~x.nan /\ (x.whole # 0 \/ x.milli # 0)

Greatest(S) == CHOOSE x \in S : \A y \in S : x >= y

\* s.charAt(p): the empty string outside the string
charAt(s, p) == IF p >= 0 /\ p < Len(s) THEN SubSeq(s, p + 1, p + 1) ELSE ""

\* the character classes \s, \d and [A-Z] of the regular expressions
IsSpace(c) == c \in {" ", "\t"}
IsDigit(c) == c \in {"0", "1", "2", "3", "4", "5", "6", "7", "8", "9"}
IsUpper(c) ==
  c \in {"A", "B", "C", "D", "E", "F", "G", "H", "I", "J", "K", "L", "M",
         "N", "O", "P", "Q", "R", "S", "T", "U", "V", "W", "X", "Y", "Z"}

DigitValue(c) ==
  CASE c = "0" -> 0 [] c = "1" -> 1 [] c = "2" -> 2 [] c = "3" -> 3 [] c = "4" -> 4
    [] c = "5" -> 5 [] c = "6" -> 6 [] c = "7" -> 7 [] c = "8" -> 8 [] c = "9" -> 9

\* s.substring(start, end)
substring(s, start, end) ==
  LET a == Max(0, Min(start, Len(s)))
      b == Max(0, Min(end, Len(s)))
  IN  SubSeq(s, Min(a, b) + 1, Max(a, b))

\* the first position at or after p that holds no blank (\s*)
RECURSIVE SkipSpaces(_, _)
SkipSpaces(s, p) ==
  IF p < Len(s) /\ IsSpace(charAt(s, p)) THEN SkipSpaces(s, p + 1) ELSE p

\* the first position at or after p that holds a blank, or the length
RECURSIVE SkipInk(_, _)
SkipInk(s, p) ==
  IF p < Len(s) /\ ~IsSpace(charAt(s, p)) THEN SkipInk(s, p + 1) ELSE p

\* the length of s without the blanks at its end
RECURSIVE InkEnd(_, _)
InkEnd(s, e) ==
  IF e > 0 /\ IsSpace(charAt(s, e - 1)) THEN InkEnd(s, e - 1) ELSE e

\* s.trim()
trim(s) ==
  LET a == SkipSpaces(s, 0)
  IN  IF a = Len(s) THEN "" ELSE substring(s, a, InkEnd(s, Len(s)))

\* s.includes(t)
includes(s, t) ==
  \E p \in 0..(Len(s) - Len(t)) : substring(s, p, p + Len(t)) = t

\* s.startsWith(t)
startsWith(s, t) == Len(s) >= Len(t) /\ substring(s, 0, Len(t)) = t

\* the runs of non-blank characters of s from position p on
RECURSIVE Tokens(_, _)
Tokens(s, p) ==
  LET a == SkipSpaces(s, p)
      e == SkipInk(s, a)
  IN  IF a = Len(s) THEN <<>> ELSE << substring(s, a, e) >> \o Tokens(s, e)

\* s.split(/\s+/) for a trimmed s: the runs of non-blank characters, and
\* the one empty string when s is empty
split(s) == IF Len(s) = 0 THEN << "" >> ELSE Tokens(s, 0)

\* parts[k] as text: undefined reads like the empty string in every use
Part(parts, k) == IF k < Len(parts) THEN parts[k + 1] ELSE ""

\* parts.slice(from, to)
slice(parts, from, to) ==
  LET a == Min(from, Len(parts))
      b == Max(a, Min(to, Len(parts)))
  IN  Array([m \in 1..(b - a) |-> parts[a + m]])

\* the number of digits in a row from position p (\d*)
RECURSIVE DigitRun(_, _)
DigitRun(s, p) == IF IsDigit(charAt(s, p)) THEN 1 + DigitRun(s, p + 1) ELSE 0

\* the decimal value of the r digits from position p
RECURSIVE DigitsValue(_, _, _)
DigitsValue(s, p, r) ==
  IF r = 0 THEN 0 ELSE 10 * DigitsValue(s, p, r - 1) + DigitValue(charAt(s, p + r - 1))

\* Number.parseInt(s)
parseInt(s) ==
  LET p == SkipSpaces(s, 0)
      signed == charAt(s, p) \in {"-", "+"}
      d == IF signed THEN p + 1 ELSE p
      r == DigitRun(s, d)
      v == DigitsValue(s, d, r)
  IN  IF r = 0 THEN NaN
      ELSE Num(IF charAt(s, p) = "-" THEN 0 - v ELSE v, 0)

\* Number.parseFloat(s)
parseFloat(s) ==
  LET p == SkipSpaces(s, 0)
      signed == charAt(s, p) \in {"-", "+"}
      d == IF signed THEN p + 1 ELSE p
      r == DigitRun(s, d)
      dotted == charAt(s, d + r) = "."
      f == IF dotted THEN DigitRun(s, d + r + 1) ELSE 0
      whole == DigitsValue(s, d, r)
      milli == DigitsValue(s, d + r + 1, Min(f, 3))
                 * (IF f = 0 THEN 0 ELSE IF f = 1 THEN 100 ELSE IF f = 2 THEN 10 ELSE 1)
  IN  IF r = 0 /\ f = 0 THEN NaN
      ELSE IF charAt(s, p) = "-" THEN Num(0 - whole, 0 - milli)
      ELSE Num(whole, milli)

\* line.match(/^\s*(\d+\.\d+)/): the captured text, or "" when no match
VersionMatch(line) ==
  LET p == SkipSpaces(line, 0)
      r == DigitRun(line, p)
      f == DigitRun(line, p + r + 1)
  IN  IF r > 0 /\ charAt(line, p + r) = "." /\ f > 0
      THEN substring(line, p, p + r + 1 + f)
      ELSE ""

\* /^[A-Z]\d{2}/.test(s)
SatelliteIdTest(s) ==
  /\ IsUpper(charAt(s, 0))
  /\ IsDigit(charAt(s, 1))
  /\ IsDigit(charAt(s, 2))

\* \d{1,2}\s+ from position p: the position after it, or -1 when no match
DigitsThenSpaces(s, p) ==
  LET r == DigitRun(s, p)
  IN  IF r \in {1, 2} /\ IsSpace(charAt(s, p + r)) THEN SkipSpaces(s, p + r) ELSE -1

\* /^\s*\d{2}\s+\d{1,2}\s+\d{1,2}\s+\d{1,2}\s+\d{1,2}/.test(line)
EpochLineTest(line) ==
  LET p0 == SkipSpaces(line, 0)
      p1 == IF DigitRun(line, p0) = 2 THEN DigitsThenSpaces(line, p0) ELSE -1
      p2 == IF p1 < 0 THEN -1 ELSE DigitsThenSpaces(line, p1)
      p3 == IF p2 < 0 THEN -1 ELSE DigitsThenSpaces(line, p2)
      p4 == IF p3 < 0 THEN -1 ELSE DigitsThenSpaces(line, p3)
  IN  p4 >= 0 /\ DigitRun(line, p4) >= 1

\* /^\s*[\d\-.]/.test(line)
DataLineTest(line) ==
  LET c == charAt(line, SkipSpaces(line, 0))
  IN  IsDigit(c) \/ c \in {"-", "."}

\* /^\s*\d{1,2}\s/.test(line)
NavLineTest(line) ==
  LET p == SkipSpaces(line, 0)
      r == DigitRun(line, p)
  IN  r \in {1, 2} /\ IsSpace(charAt(line, p + r))

\* satNum.toString().padStart(2, "0") with the G in front
SatelliteName(satNum) ==
  LET digit(d) == charAt("0123456789", d)
  IN  IF satNum.nan THEN "GNaN"
      ELSE IF satNum.whole < 0 THEN "G-" \o digit((0 - satNum.whole) % 10)
      ELSE IF satNum.whole < 10 THEN "G0" \o digit(satNum.whole)
      ELSE "G" \o digit(satNum.whole \div 10) \o digit(satNum.whole % 10)

(***************************************************************************)
(* parseRinexObservation.  The content is held as its lines (the result    *)
(* of content.split(/\r?\n/)); the record below holds the function's       *)
(* locals, i the index of the next line of the loop.                       *)
(***************************************************************************)
NoEpoch == [none |-> TRUE]

ObservationStart(lines) ==
  [lines |-> lines, i |-> 0, headerComplete |-> FALSE, currentEpoch |-> NoEpoch,
   epochData |-> <<>>, observationTypes |-> <<>>, rinexVersion |-> Num(2, 0),
   observations |-> <<>>, returned |-> FALSE]

\* the values of the Math.random() defaults, r the draw in hundredths
DefaultPseudorange(r) == Num(20000000 + 50000 * r, 0)
DefaultCarrierPhase(r) == Num(10 * r, 0)
DefaultDoppler(r) == Num(20 * r - 1000, 0)
DefaultSnr(r) == Num(35 + (15 * r) \div 100, 10 * ((15 * r) % 100))

\* rinexVersion after a header line
HeaderVersion(st, line) ==
  IF includes(line, "RINEX VERSION") /\ VersionMatch(line) # ""
  THEN parseFloat(VersionMatch(line))
  ELSE st.rinexVersion

\* observationTypes after a header line: the "# / TYPES OF OBSERV" branch,
\* then the "SYS / # / OBS TYPES" branch
HeaderTypes(st, line) ==
  LET listed == split(trim(substring(line, 6, 60)))
      types2 == IF includes(line, "# / TYPES OF OBSERV")
                THEN Pick(listed, {m \in 1..Len(listed) : Len(listed[m]) > 0})
                ELSE st.observationTypes
      parts == split(trim(line))
      numObs == parseInt(Part(parts, 1))
  IN  IF includes(line, "SYS / # / OBS TYPES") /\ Part(parts, 0) = "G"
      THEN (IF numObs.nan THEN <<>> ELSE slice(parts, 2, 2 + numObs.whole))
      ELSE types2

\* one iteration of the loop on a header line
ObservationHeaderLine(st, line) ==
  [st EXCEPT !.i = st.i + 1,
             !.rinexVersion = HeaderVersion(st, line),
             !.observationTypes = HeaderTypes(st, line),
             !.headerComplete = includes(line, "END OF HEADER")]

\* the step without its test that the epoch has satellites
SaveEpochAlways(st) ==
  IF st.currentEpoch # NoEpoch
  THEN Append(st.observations, [epoch |-> st.currentEpoch, satellites |-> st.epochData])
  ELSE st.observations

\* observations after the "save previous epoch" step
SaveEpoch(st) ==
  IF st.currentEpoch # NoEpoch /\ Len(st.epochData) > 0
  THEN Append(st.observations, [epoch |-> st.currentEpoch, satellites |-> st.epochData])
  ELSE st.observations

\* the epoch record of a version 3 epoch line
Epoch3(line) ==
  LET parts == split(trim(line))
  IN  [year |-> IntOrElse(parseInt(Part(parts, 1)), 2024),
       month |-> IntOrElse(parseInt(Part(parts, 2)), 1),
       day |-> IntOrElse(parseInt(Part(parts, 3)), 1),
       hour |-> IntOrElse(parseInt(Part(parts, 4)), 0),
       minute |-> IntOrElse(parseInt(Part(parts, 5)), 0),
       second |-> OrElse(parseFloat(Part(parts, 6)), Num(0, 0)),
       flag |-> IntOrElse(parseInt(Part(parts, 7)), 0),
       numSats |-> IntOrElse(parseInt(Part(parts, 8)), 0)]

\* one iteration on a version 3 line that starts with ">"
ObservationEpoch3(st, line) ==
  [st EXCEPT !.i = st.i + 1,
             !.observations = SaveEpoch(st),
             !.currentEpoch = Epoch3(line),
             !.epochData = <<>>]

\* the field of satObs an observation code sets in the version 3 grammar
FieldOf3(obsType) ==
  IF startsWith(obsType, "C") \/ obsType = "P1" \/ obsType = "P2" THEN "pseudorange"
  ELSE IF startsWith(obsType, "L") \/ obsType = "L1" \/ obsType = "L2" THEN "carrierPhase"
  ELSE IF startsWith(obsType, "D") \/ obsType = "D1" \/ obsType = "D2" THEN "doppler"
  ELSE IF startsWith(obsType, "S") \/ obsType = "S1" \/ obsType = "S2" THEN "snr"
  ELSE "none"

\* satObs[field] after the mapping loop: the value of the last token whose
\* code sets the field, 0 (as falsy as undefined) when no token does
Mapped3(observationTypes, values, field) ==
  LET n == Min(Len(observationTypes), Len(values))
      setters == {j \in 1..n : FieldOf3(observationTypes[j]) = field}
  IN  IF setters = {} THEN Num(0, 0)
      ELSE OrElse(parseFloat(values[Greatest(setters)]), Num(0, 0))

\* satObs of a version 3 satellite line after the mapping loop
SatObs3(observationTypes, line) ==
  LET values == split(trim(substring(line, 3, Len(line))))
  IN  [satellite |-> substring(line, 0, 3),
       pseudorange |-> Mapped3(observationTypes, values, "pseudorange"),
       carrierPhase |-> Mapped3(observationTypes, values, "carrierPhase"),
       doppler |-> Mapped3(observationTypes, values, "doppler"),
       snr |-> Mapped3(observationTypes, values, "snr")]

\* the "reasonable defaults" step: rnd[1..4] are the draws of Math.random()
\* for pseudorange, carrierPhase, doppler and snr
WithDefaults3(satObs, rnd) ==
  [satObs EXCEPT
     !.pseudorange = IF Truthy(@) THEN @ ELSE DefaultPseudorange(rnd[1]),
     !.carrierPhase = IF Truthy(@) THEN @ ELSE DefaultCarrierPhase(rnd[2]),
     !.doppler = IF Truthy(@) THEN @ ELSE DefaultDoppler(rnd[3]),
     !.snr = IF Truthy(@) THEN @ ELSE DefaultSnr(rnd[4])]

\* the draws the defaults of satObs take: a value of Math.random() for
\* each falsy field, 0 where Math.random() is not called
DefaultDraws3(satObs) ==
  LET falsy == << ~Truthy(satObs.pseudorange), ~Truthy(satObs.carrierPhase),
                  ~Truthy(satObs.doppler), ~Truthy(satObs.snr) >>
  IN  {rnd \in [1..4 -> RandVals \cup {0}] :
         \A k \in 1..4 : IF falsy[k] THEN rnd[k] \in RandVals ELSE rnd[k] = 0}

\* one iteration on a version 3 satellite line whose record is satObs
ObservationSatellite3(st, satObs) ==
  [st EXCEPT !.i = st.i + 1, !.epochData = Append(st.epochData, satObs)]

\* the pivot with the year 80 on the side of this century
PivotYearInclusive(year) ==
  IF year.nan THEN year
  ELSE IF year.whole <= 80 THEN Num(year.whole + 2000, 0)
  ELSE IF year.whole < 100 THEN Num(year.whole + 1900, 0)
  ELSE year

\* the year of a version 2 line, after the pivot
PivotYear(year) ==
  IF year.nan THEN year
  ELSE IF year.whole < 80 THEN Num(year.whole + 2000, 0)
  ELSE IF year.whole < 100 THEN Num(year.whole + 1900, 0)
  ELSE year

\* the epoch record of a version 2 epoch line
Epoch2(line) ==
  LET parts == split(trim(line))
  IN  [year |-> PivotYear(parseInt(Part(parts, 0))),
       month |-> IntOrElse(parseInt(Part(parts, 1)), 1),
       day |-> IntOrElse(parseInt(Part(parts, 2)), 1),
       hour |-> IntOrElse(parseInt(Part(parts, 3)), 0),
       minute |-> IntOrElse(parseInt(Part(parts, 4)), 0),
       second |-> OrElse(parseFloat(Part(parts, 5)), Num(0, 0)),
       flag |-> IntOrElse(parseInt(Part(parts, 6)), 0),
       numSats |-> IntOrElse(parseInt(Part(parts, 7)), 0)]

\* the tokens of a version 2 epoch line that become satellites, in order
ListedSatellites2(line) ==
  LET parts == split(trim(line))
      numSats == IntOrElse(parseInt(Part(parts, 7)), 0)
  IN  Pick(parts, {m \in 9..Len(parts) : m - 1 < 8 + numSats /\ Len(parts[m]) >= 3})

\* epochData after a version 2 epoch line that lists the tokens listed; rnd
\* holds four draws of Math.random() for each
EpochData2(listed, rnd) ==
  Array([m \in 1..Len(listed) |->
           [satellite |-> substring(listed[m], 0, 3),
            pseudorange |-> DefaultPseudorange(rnd[4 * m - 3]),
            carrierPhase |-> DefaultCarrierPhase(rnd[4 * m - 2]),
            doppler |-> DefaultDoppler(rnd[4 * m - 1]),
            snr |-> DefaultSnr(rnd[4 * m])]])

\* one iteration on a version 2 epoch line with epoch record epoch
ObservationEpoch2(st, epoch, epochData) ==
  [st EXCEPT !.i = st.i + 1,
             !.observations = SaveEpoch(st),
             !.currentEpoch = epoch,
             !.epochData = epochData]

\* obsValues of a version 2 data line: the non-blank 14-character pieces
\* taken every 16 characters
ObsValues(line) ==
  LET pieces == [k \in 1..((Len(line) + 15) \div 16) |->
                   trim(substring(line, 16 * (k - 1), 16 * (k - 1) + 14))]
      inked == Pick(pieces, {k \in 1..Len(pieces) : pieces[k] # ""})
  IN  Array([m \in 1..Len(inked) |-> OrElse(parseFloat(inked[m]), Num(0, 0))])

\* whether obsValues[k] is stored: the value and the k-th code exist (a code
\* is a non-empty string) and the code is of the kind the k-th position
\* takes
Stored2(observationTypes, obsValues, k, letter, code) ==
  /\ k < Len(obsValues)
  /\ Truthy(obsValues[k + 1])
  /\ k < Len(observationTypes)
  /\ (startsWith(observationTypes[k + 1], letter) \/ observationTypes[k + 1] = code)

\* the last satellite of epochData after a version 2 data line
Data2(observationTypes, obsValues, sat) ==
  [sat EXCEPT
     !.pseudorange = IF Stored2(observationTypes, obsValues, 0, "C", "P1")
                     THEN obsValues[1] ELSE @,
     !.carrierPhase = IF Stored2(observationTypes, obsValues, 1, "L", "L1")
                      THEN obsValues[2] ELSE @,
     !.doppler = IF Stored2(observationTypes, obsValues, 2, "D", "D1")
                 THEN obsValues[3] ELSE @,
     !.snr = IF Stored2(observationTypes, obsValues, 3, "S", "S1")
             THEN obsValues[4] ELSE @]

\* one iteration on a version 2 data line
ObservationData2(st, line) ==
  LET obsValues == ObsValues(line)
      last == Len(st.epochData)
  IN  IF last > 0 /\ Len(obsValues) > 0
      THEN [st EXCEPT !.i = st.i + 1,
                      !.epochData[last] = Data2(st.observationTypes, obsValues, @)]
      ELSE [st EXCEPT !.i = st.i + 1]

\* the branch of the loop body a line takes
ObservationBranch(st, line) ==
  IF trim(line) = "" THEN "blank"
  ELSE IF ~st.headerComplete THEN "header"
  ELSE IF st.rinexVersion.whole >= 3
  THEN (IF startsWith(line, ">") THEN "epoch3"
        ELSE IF Len(line) > 3 /\ SatelliteIdTest(trim(line)) THEN "satellite3"
        ELSE "ignored")
  ELSE (IF EpochLineTest(line) THEN "epoch2"
        ELSE IF st.currentEpoch # NoEpoch /\ Len(line) > 10 /\ DataLineTest(line) THEN "data2"
        ELSE "ignored")

\* the "add final epoch" step and the return
ObservationReturn(st) ==
  [st EXCEPT !.observations = SaveEpoch(st), !.returned = TRUE]

(***************************************************************************)
(* parseRinexNavigation, held like parseRinexObservation.  currentSat is   *)
(* "" while it is null (both are falsy, and no satellite name is empty);   *)
(* satData is a function from its keys to their values.                    *)
(***************************************************************************)
SqrtADefault == Num(5153, 639)

NavigationStart(lines) ==
  [lines |-> lines, i |-> 0, headerComplete |-> FALSE, currentSat |-> "",
   satData |-> <<>>, lineCount |-> 0, rinexVersion |-> Num(2, 0),
   ephemeris |-> <<>>, returned |-> FALSE]

\* one iteration of the loop on a header line
NavigationHeaderLine(st, line) ==
  [st EXCEPT !.i = st.i + 1,
             !.rinexVersion = IF includes(line, "RINEX VERSION") /\ VersionMatch(line) # ""
                              THEN parseFloat(VersionMatch(line))
                              ELSE @,
             !.headerComplete = includes(line, "END OF HEADER")]

\* the step keeping one record for each satellite
SaveSatelliteOnce(st) ==
  IF st.currentSat # "" /\ DOMAIN st.satData # {}
       /\ \A m \in 1..Len(st.ephemeris) : st.ephemeris[m]["satellite"] # st.currentSat
  THEN Append(st.ephemeris, ("satellite" :> st.currentSat) @@ st.satData)
  ELSE st.ephemeris

\* ephemeris after the "save previous satellite" step
SaveSatellite(st) ==
  IF st.currentSat # "" /\ DOMAIN st.satData # {}
  THEN Append(st.ephemeris, ("satellite" :> st.currentSat) @@ st.satData)
  ELSE st.ephemeris

\* the clock terms both grammars read from parts[7..9]
ClockTerms(parts) ==
  ("clockBias" :> OrElse(parseFloat(Part(parts, 7)), Num(0, 0)))
    @@ ("clockDrift" :> OrElse(parseFloat(Part(parts, 8)), Num(0, 0)))
    @@ ("clockDriftRate" :> OrElse(parseFloat(Part(parts, 9)), Num(0, 0)))

\* toc without its year, read from parts[2..6]
TocOfDay(parts) ==
  [month |-> IntOrElse(parseInt(Part(parts, 2)), 1),
   day |-> IntOrElse(parseInt(Part(parts, 3)), 1),
   hour |-> IntOrElse(parseInt(Part(parts, 4)), 0),
   minute |-> IntOrElse(parseInt(Part(parts, 5)), 0),
   second |-> OrElse(parseFloat(Part(parts, 6)), Num(0, 0))]

\* satData of a version 3 ephemeris header line
SatData3(line) ==
  LET parts == split(trim(line))
      year == [year |-> Num(IntOrElse(parseInt(Part(parts, 1)), 2024), 0)]
  IN  ("toc" :> (year @@ TocOfDay(parts))) @@ ClockTerms(parts)

\* the year of a version 2 ephemeris header line, after the pivot
NavigationPivotYear(year) ==
  IF year.nan THEN year
  ELSE IF year.whole < 80 THEN Num(year.whole + 2000, 0)
  ELSE IF year.whole < 100 THEN Num(year.whole + 1900, 0)
  ELSE year

\* satData of a version 2 ephemeris header line
SatData2(line) ==
  LET parts == split(trim(line))
      year == [year |-> NavigationPivotYear(parseInt(Part(parts, 1)))]
  IN  ("toc" :> (year @@ TocOfDay(parts))) @@ ClockTerms(parts)

\* whether the line opens an ephemeris block in the grammar of the version
NavigationHeaderTest(rinexVersion, line) ==
  IF rinexVersion.whole >= 3
  THEN Len(line) > 3 /\ SatelliteIdTest(trim(line))
  ELSE Len(line) > 2 /\ NavLineTest(line)

\* the locals after the version branch of an iteration
NavigationBlock(st, line) ==
  IF ~NavigationHeaderTest(st.rinexVersion, line) THEN st
  ELSE [st EXCEPT
          !.ephemeris = SaveSatellite(st),
          !.currentSat = IF st.rinexVersion.whole >= 3
                         THEN substring(line, 0, 3)
                         ELSE SatelliteName(parseInt(Part(split(trim(line)), 0))),
          !.satData = IF st.rinexVersion.whole >= 3 THEN SatData3(line) ELSE SatData2(line),
          !.lineCount = 0]

\* the test of the "ephemeris data lines (both versions)" branch
ContinuationTest(currentSat, line) ==
  /\ currentSat # ""
  /\ Len(trim(line)) > 0
  /\ ~SatelliteIdTest(trim(line))
  /\ ~NavLineTest(line)

\* values[k] || d of a data line
ValueOrElse(values, k, d) ==
  IF k < Len(values) THEN OrElse(OrElse(parseFloat(values[k + 1]), Num(0, 0)), d) ELSE d

\* the keys a data line sets when it is line number lineCount of its block
GroupKeys(lineCount) ==
  IF lineCount = 0 THEN << "iode", "crs", "deltaN", "m0" >>
  ELSE IF lineCount = 1 THEN << "cuc", "e", "cus", "sqrtA" >>
  ELSE IF lineCount = 2 THEN << "toe", "cic", "omega0", "cis" >>
  ELSE <<>>

\* satData after a data line
Continuation(satData, lineCount, line) ==
  LET values == split(trim(line))
      keys == GroupKeys(lineCount)
      set == [k \in Range(keys) |->
                LET m == CHOOSE m \in 1..Len(keys) : keys[m] = k
                IN  ValueOrElse(values, m - 1,
                                IF k = "sqrtA" THEN SqrtADefault ELSE Num(0, 0))]
  IN  set @@ satData

\* one iteration of the loop on a line after the header
NavigationBodyLine(st, line) ==
  LET block == NavigationBlock(st, line)
  IN  IF ContinuationTest(block.currentSat, line)
      THEN [block EXCEPT !.i = st.i + 1,
                         !.satData = Continuation(block.satData, block.lineCount, line),
                         !.lineCount = block.lineCount + 1]
      ELSE [block EXCEPT !.i = st.i + 1]

\* the branch of the loop body a line takes
NavigationBranch(st, line) ==
  IF trim(line) = "" THEN "blank"
  ELSE IF ~st.headerComplete THEN "header"
  ELSE IF NavigationHeaderTest(st.rinexVersion, line) THEN "block"
  ELSE IF ContinuationTest(st.currentSat, line) THEN "data"
  ELSE "ignored"

\* the "add final satellite" step and the return
NavigationReturn(st) ==
  [st EXCEPT !.ephemeris = SaveSatellite(st), !.returned = TRUE]


(***************************************************************************)
(* Requests.  A request carries the two uploaded files; for each file the  *)
(* model holds its length in characters and the value the file's parser    *)
(* returns for it (the epochs of parseRinexObservation, the records of     *)
(* parseRinexNavigation).  Every observation the parser emits has a        *)
(* non-zero pseudorange and every emitted epoch has at least one           *)
(* satellite.                                                              *)
(***************************************************************************)
LongContent == 40 * MinContentLength
ContentLengths == {MinContentLength - 1, MinContentLength, LongContent}

SatObs(id) ==
  [satellite |-> id, pseudorange |-> 20123456, carrierPhase |-> 500,
   doppler |-> 100, snr |-> 42]

SatelliteLists ==
  { << "G01" >>,
    << "G11", "G12", "G13", "G14", "G15", "G16",
       "G17", "G18", "G19", "G20", "G21", "G22" >> }

Epoch(ids) ==
  [epoch |-> [year |-> 2024, month |-> 1, day |-> 1, hour |-> 0, minute |-> 0,
              second |-> 0, flag |-> 0, numSats |-> Len(ids)],
   satellites |-> [m \in 1..Len(ids) |-> SatObs(ids[m])]]

Epochs == {Epoch(ids) : ids \in SatelliteLists}

ObservationResults == UNION {[1..n -> Epochs] : n \in 0..MaxObs}

EphemerisRecord(id) ==
  [satellite |-> id,
   toc |-> [year |-> 2024, month |-> 1, day |-> 1, hour |-> 0, minute |-> 0,
            second |-> 0],
   clockBias |-> 0, clockDrift |-> 0, clockDriftRate |-> 0]

FullEphemeris ==
  LET ids == << "G01",
                "G11", "G12", "G13", "G14", "G15", "G16",
                "G17", "G18", "G19", "G20", "G21", "G22" >>
  IN  [m \in 1..Len(ids) |-> EphemerisRecord(ids[m])]

EphemerisResults == {<<>>, FullEphemeris}

Requests ==
  { r \in [bodyOk : BOOLEAN, obsFile : BOOLEAN, navFile : BOOLEAN,
           obsLength : ContentLengths, navLength : ContentLengths,
           observations : ObservationResults, ephemeris : EphemerisResults] :
      \* a file that is never parsed is held without a parse result
      /\ (~r.bodyOk) => (r.obsFile /\ r.navFile)
      /\ (~r.bodyOk \/ ~r.obsFile \/ ~r.navFile) =>
            /\ r.obsLength = MinContentLength
            /\ r.navLength = MinContentLength
      /\ (~r.bodyOk \/ ~r.obsFile \/ ~r.navFile
            \/ r.obsLength < MinContentLength \/ r.navLength < MinContentLength) =>
            /\ r.observations = <<>>
            /\ r.ephemeris = <<>>
      \* records come out of long files only
      /\ r.observations # <<>> => r.obsLength = LongContent
      /\ r.ephemeris # <<>> => r.navLength = LongContent }

NoRequest == [none |-> TRUE]
NoResponse == [none |-> TRUE]

(***************************************************************************)
(* State.                                                                  *)
(***************************************************************************)
VARIABLES
  request,     \* the request being served, or NoRequest
  response,    \* the response POST returned for it, or NoResponse
  invoked,     \* the functions POST called while serving it, in order
  generated,   \* generateRealisticResults' positions array as generated
  obsRun,      \* the locals of a call of parseRinexObservation, or Idle
  navRun,      \* the locals of a call of parseRinexNavigation, or Idle
  page,        \* the component SpoofingDetection of page.tsx and its calls
  app          \* the component App of App.js and its calls

vars == << request, response, invoked, generated, obsRun, navRun, page, app >>

\* no call of the parser is under way
Idle == [none |-> TRUE]

(***************************************************************************)
(* POST.                                                                   *)
(***************************************************************************)
ErrorResponse(status, error) == [status |-> status, body |-> [error |-> error]]

\* the input checks with the navigation check made before the observation check
ValidateNavigationFirst(req) ==
  IF ~req.obsFile \/ ~req.navFile
  THEN ErrorResponse(400, "Both observation (.24o) and navigation (.24n) files are required")
  ELSE IF req.navLength < MinContentLength
  THEN ErrorResponse(400, "Navigation file appears to be too small or empty")
  ELSE IF req.obsLength < MinContentLength
  THEN ErrorResponse(400, "Observation file appears to be too small or empty")
  ELSE NoResponse

\* the three input checks: the error response, or NoResponse when all pass
Validate(req) ==
  IF ~req.obsFile \/ ~req.navFile
  THEN ErrorResponse(400, "Both observation (.24o) and navigation (.24n) files are required")
  ELSE IF req.obsLength < MinContentLength
  THEN ErrorResponse(400, "Observation file appears to be too small or empty")
  ELSE IF req.navLength < MinContentLength
  THEN ErrorResponse(400, "Navigation file appears to be too small or empty")
  ELSE NoResponse

\* the handler's outcome for req when Math.random() follows tape
Handle(req, tape) ==
  IF ~req.bodyOk
  THEN \* request.formData() throws: the outer catch
       [response |-> ErrorResponse(500, "Processing failed"),
        invoked |-> <<>>, generated |-> <<>>]
  ELSE IF Validate(req) # NoResponse
  THEN [response |-> Validate(req), invoked |-> <<>>, generated |-> <<>>]
  ELSE LET out == generateRealisticResults(req.observations, req.ephemeris, tape)
       IN  [response |-> [status |-> 200, body |-> out.result],
            invoked |-> << "parseRinexObservation", "parseRinexNavigation",
                           "generateRealisticResults" >>,
            generated |-> out.generated]

\* no value: null
Null == "null"

\* SpoofingDetection as useState initialises it; calls holds the position of
\* every call of handleFileUpload made so far, intervals the calls whose
\* setInterval timer is running
PageStart ==
  [obsFile |-> FALSE, navFile |-> FALSE, results |-> Null, loading |-> FALSE,
   progress |-> 0, error |-> Null, calls |-> <<>>, intervals |-> {}]

\* App as useState initialises it; calls holds the position of every call of
\* handleSubmit made so far
AppStart ==
  [obsFile |-> FALSE, navFile |-> FALSE, results |-> Null, loading |-> FALSE,
   error |-> Null, calls |-> <<>>]

Init ==
  /\ request = NoRequest
  /\ response = NoResponse
  /\ invoked = <<>>
  /\ generated = <<>>
  /\ obsRun = Idle
  /\ navRun = Idle
  /\ page = PageStart
  /\ app = AppStart

\* a client sends a request
Submit ==
  /\ request = NoRequest
  /\ request' \in Requests
  /\ response' = NoResponse
  /\ invoked' = <<>>
  /\ generated' = <<>>
  /\ UNCHANGED << obsRun, navRun, page, app >>

\* the handler's effect on the state, for some sequence of random values
Serve ==
  /\ \E out \in {Handle(request, tape) : tape \in Tapes} :
       /\ response' = out.response
       /\ invoked' = out.invoked
       /\ generated' = out.generated
  /\ UNCHANGED << request, obsRun, navRun, page, app >>

\* the handler serves the request
POST ==
  /\ request # NoRequest
  /\ response = NoResponse
  /\ Serve

\* the handler has returned: nothing of the request is kept
Discard ==
  /\ response # NoResponse
  /\ request' = NoRequest
  /\ response' = NoResponse
  /\ invoked' = <<>>
  /\ generated' = <<>>
  /\ UNCHANGED << obsRun, navRun, page, app >>

Next == Submit \/ POST \/ Discard

Spec == Init /\ [][Next]_vars

(***************************************************************************)
(* The same bytes sent twice: the handler serves an answered request       *)
(* again.  Nothing survives between the two runs but the request itself.   *)
(***************************************************************************)
Resend ==
  /\ request # NoRequest
  /\ response # NoResponse
  /\ Serve

NextResend == Submit \/ POST \/ Resend \/ Discard

SpecResend == Init /\ [][NextResend]_vars
(***************************************************************************)
(* Observation files: the lines of RINEX text the parser is run on.        *)
(***************************************************************************)
Version2 ==
  "     2.11           OBSERVATION DATA    G (GPS)             RINEX VERSION / TYPE"
Version3 ==
  "     3.04           OBSERVATION DATA    G                   RINEX VERSION / TYPE"
TypesC1 ==
  "     1    C1                                                # / TYPES OF OBSERV"
TypesFour2 ==
  "     4    C1    L1    D1    S1                              # / TYPES OF OBSERV"
TypesL1C1 ==
  "     2    L1    C1                                          # / TYPES OF OBSERV"
TypesFour3 ==
  "G    4 C1C L1C D1C S1C                                      SYS / # / OBS TYPES"
TypesMixed3 ==
  "G    5 C1C L1C P2 D1C S1C                                   SYS / # / OBS TYPES"
TypesP3 ==
  "G    2 P2W L2W                                              SYS / # / OBS TYPES"
EndOfHeader ==
  "                                                            END OF HEADER"
Epoch3Line ==
  "> 2024 01 01 00 00  0.0000000  0  2"
Epoch3Later ==
  "> 2024 01 01 00 00 30.0000000  0  1"
SatelliteFull3 ==
  "G01  20123456.789   105750123.456       -1234.567          45.000"
SatelliteShort3 ==
  "G02  21234567.891   111590432.100        2345.678"
SatelliteText3 ==
  "G03           abc   105750123.456       -1234.567          45.000"
SatelliteSix3 ==
  "G05  20123456.789   105750123.456    20123460.125       -1234.567          45.000           7.000"
SatelliteIndented3 ==
  " G04  20123456.789   105750123.456       -1234.567          45.000"
SatelliteTwo3 ==
  "G07  22345678.912   117654321.250"
EpochGlued2 ==
  " 24  1  1  0  0  0.0000000  0  1G01"
EpochSpaced2 ==
  " 24  1  1  0  0 30.0000000  0  1 G01"
EpochPair2 ==
  " 24  1  1  0  0  0.0000000  0  2 G01 G02"
Epoch79 ==
  " 79 12 31 23 59 30.0000000  0  0"
Epoch85 ==
  " 85  6 15 12 30  0.0000000  0  0"
Epoch00 ==
  " 00  1  1  0  0  0.0000000  0  0"
DataOne2 ==
  "  20123456.789"
DataFour2 ==
  "  20123456.789   105750123.456       -1234.567          45.000"
DataOther2 ==
  "  21234567.891   111590432.100        2345.678          38.000"
DataTwo2 ==
  " 105750123.456    20123456.789"
Comment ==
  "MARKER MOVED"

\* every sequence of at most n lines of the alphabet
Bodies(alphabet, n) == UNION {[1..k -> alphabet] : k \in 0..n}

\* the number of lines of a body that are in a set of lines
Occurrences(body, lines) == Cardinality({k \in 1..Len(body) : body[k] \in lines})

Header3 == << Version3, TypesFour3, EndOfHeader >>
Header2 == << Version2, TypesFour2, EndOfHeader >>

\* version 3 files: every body of the four lines
ObservationFiles3 ==
  {Header3 \o body :
     body \in Bodies({Epoch3Line, SatelliteFull3, SatelliteShort3, Comment}, MaxLines)}

\* version 2 files: every body of the four lines in which at most one epoch
\* line lists a satellite, as the first or the second line
ObservationFiles2 ==
  {Header2 \o body :
     body \in {b \in Bodies({EpochGlued2, EpochSpaced2, DataFour2, Comment}, MaxLines) :
                 \A k \in 1..Len(b) : b[k] = EpochSpaced2 =>
                   (k <= 2 /\ Occurrences(b, {EpochSpaced2}) = 1)}}

\* single files: one observation type, swapped types, more tokens than
\* types, a P code with a third character, a token that is no number, no
\* END OF HEADER, the years of the pivot, blank lines, several epochs, an
\* epoch of two satellites, a satellite line that opens with a blank
ObservationFilesNamed ==
  { << Version2, TypesC1, EndOfHeader, EpochGlued2, DataOne2 >>,
    << Version3, TypesFour3, EndOfHeader, Epoch3Later, SatelliteIndented3 >>,
    << Version2, TypesFour2, EndOfHeader, EpochPair2, DataFour2, DataOther2 >>,
    << Version2, TypesC1, EndOfHeader, EpochSpaced2, DataOne2 >>,
    << Version2, TypesL1C1, EndOfHeader, EpochSpaced2, DataTwo2 >>,
    << Version3, TypesMixed3, EndOfHeader, Epoch3Line, SatelliteSix3 >>,
    << Version3, TypesP3, EndOfHeader, Epoch3Line, SatelliteTwo3 >>,
    << Version3, TypesFour3, EndOfHeader, Epoch3Line, SatelliteText3 >>,
    << Version3, TypesFour3, Epoch3Line, SatelliteFull3 >>,
    << Version2, TypesFour2, EpochSpaced2, DataFour2 >>,
    << Version2, TypesFour2, EndOfHeader, Epoch79, Epoch85, Epoch00 >>,
    << Version3, "", TypesFour3, EndOfHeader, Epoch3Line, "   ", SatelliteFull3 >>,
    << Version3, TypesFour3, EndOfHeader, SatelliteFull3, Epoch3Line, SatelliteFull3,
       SatelliteShort3, Epoch3Line, Epoch3Later, SatelliteFull3, Epoch3Line >> }

ObservationFiles == ObservationFiles3 \cup ObservationFiles2 \cup ObservationFilesNamed

(***************************************************************************)
(* A call of parseRinexObservation, one action per branch of the loop      *)
(* body.                                                                   *)
(***************************************************************************)
\* the line the loop is at
ObsLine == obsRun.lines[obsRun.i + 1]

\* the loop is at a line that takes the branch
ObsAt(branch) ==
  /\ obsRun # Idle
  /\ ~obsRun.returned
  /\ obsRun.i < Len(obsRun.lines)
  /\ ObservationBranch(obsRun, ObsLine) = branch

ObsCall ==
  /\ obsRun = Idle
  /\ navRun = Idle
  /\ obsRun' \in {ObservationStart(lines) : lines \in ObservationFiles}
  /\ UNCHANGED << request, response, invoked, generated, navRun, page, app >>

ObsBlank ==
  /\ ObsAt("blank")
  /\ obsRun' = [obsRun EXCEPT !.i = obsRun.i + 1]
  /\ UNCHANGED << request, response, invoked, generated, navRun, page, app >>

ObsHeader ==
  /\ ObsAt("header")
  /\ obsRun' = ObservationHeaderLine(obsRun, ObsLine)
  /\ UNCHANGED << request, response, invoked, generated, navRun, page, app >>

ObsEpoch3 ==
  /\ ObsAt("epoch3")
  /\ obsRun' = ObservationEpoch3(obsRun, ObsLine)
  /\ UNCHANGED << request, response, invoked, generated, navRun, page, app >>

\* Math.random() is called for the fields the line left falsy
ObsSatellite3 ==
  /\ ObsAt("satellite3")
  /\ LET satObs == SatObs3(obsRun.observationTypes, ObsLine)
     IN  \E rnd \in DefaultDraws3(satObs) :
           obsRun' = ObservationSatellite3(obsRun, WithDefaults3(satObs, rnd))
  /\ UNCHANGED << request, response, invoked, generated, navRun, page, app >>

\* Math.random() is called four times for each listed satellite
ObsEpoch2 ==
  /\ ObsAt("epoch2")
  /\ LET epoch == Epoch2(ObsLine)
         listed == ListedSatellites2(ObsLine)
     IN  \E rnd \in [1..(4 * Len(listed)) -> RandVals] :
           obsRun' = ObservationEpoch2(obsRun, epoch, EpochData2(listed, rnd))
  /\ UNCHANGED << request, response, invoked, generated, navRun, page, app >>

ObsData2 ==
  /\ ObsAt("data2")
  /\ obsRun' = ObservationData2(obsRun, ObsLine)
  /\ UNCHANGED << request, response, invoked, generated, navRun, page, app >>

ObsIgnored ==
  /\ ObsAt("ignored")
  /\ obsRun' = [obsRun EXCEPT !.i = obsRun.i + 1]
  /\ UNCHANGED << request, response, invoked, generated, navRun, page, app >>

ObsReturn ==
  /\ obsRun # Idle
  /\ ~obsRun.returned
  /\ obsRun.i = Len(obsRun.lines)
  /\ obsRun' = ObservationReturn(obsRun)
  /\ UNCHANGED << request, response, invoked, generated, navRun, page, app >>

parseRinexObservation ==
  \/ ObsCall
  \/ ObsBlank
  \/ ObsHeader
  \/ ObsEpoch3
  \/ ObsSatellite3
  \/ ObsEpoch2
  \/ ObsData2
  \/ ObsIgnored
  \/ ObsReturn

(***************************************************************************)
(* Navigation files.                                                       *)
(***************************************************************************)
NavVersion2 ==
  "     2.11           N: GPS NAV DATA                         RINEX VERSION / TYPE"
NavVersion3 ==
  "     3.04           N: GNSS NAV DATA    G: GPS              RINEX VERSION / TYPE"
Block2 ==
  " 1 24  1  1  0  0  0.0 1.250000000000D+00 2.500000000000D+00 0.000000000000D+00"
Block2Again ==
  " 1 85  6 15 12  0  0.0 1.750000000000D+00 2.500000000000D+00 0.000000000000D+00"
Block2Twelve ==
  "12 79 12 31 23 59 30.0 3.500000000000D+00 0.000000000000D+00 0.000000000000D+00"
Block2Zero ==
  " 7 00  1  1  0  0  0.0 3.500000000000D+00 0.000000000000D+00 0.000000000000D+00"
Block3 ==
  "G01 2024 01 01 00 00 00 1.250000000000D+00 2.500000000000D+00 0.000000000000D+00"
Block3Again ==
  "G01 2024 01 01 02 00 00 1.750000000000D+00 2.500000000000D+00 0.000000000000D+00"
Block3Indented ==
  " G02 2024 01 01 00 00 00 1.250000000000D+00 2.500000000000D+00 0.000000000000D+00"
ContinuationA ==
  "    6.125000000000D+00 1.500000000000D+00 2.250000000000D+00 3.125000000000D+00"
ContinuationB ==
  "    7.250000000000D+00 4.500000000000D+00 8.750000000000D+00 0.000000000000D+00"
ContinuationShort ==
  "    9.500000000000D+00 4.250000000000D+00"
ContinuationCount ==
  "    5 4.500000000000D+00 8.750000000000D+00 2.500000000000D+00"

NavHeader2 == << NavVersion2, EndOfHeader >>
NavHeader3 == << NavVersion3, EndOfHeader >>

\* every body of a block line and two continuation lines, in both grammars
NavigationFilesBoth ==
  {NavHeader2 \o body : body \in Bodies({Block2, ContinuationA, ContinuationB}, MaxNavLines)}
    \cup
  {NavHeader3 \o body : body \in Bodies({Block3, ContinuationA, ContinuationB}, MaxNavLines)}

\* single files: a satellite with two records, the same line twice, the
\* years of the pivot, a short line, a line that opens with a count, a
\* comment, a blank line, no END OF HEADER, more than three lines in a
\* block, a block line that opens with a blank
NavigationFilesNamed ==
  { << NavVersion3, EndOfHeader, Block3Indented, ContinuationA >>,
    << NavVersion2, EndOfHeader, Block2, ContinuationA, Block2Again, ContinuationB, Block2 >>,
    << NavVersion3, EndOfHeader, Block3, ContinuationA, Block3Again, Block3Again >>,
    << NavVersion2, EndOfHeader, Block2Twelve, ContinuationShort, Block2Zero, Block2Again >>,
    << NavVersion3, EndOfHeader, Block3, ContinuationCount, ContinuationA >>,
    << NavVersion2, EndOfHeader, Block2, ContinuationA, ContinuationCount, ContinuationB >>,
    << NavVersion2, EndOfHeader, Comment, Block2, "  ", ContinuationA, Comment >>,
    << NavVersion3, EndOfHeader, ContinuationA, Block3, ContinuationShort, Block2 >>,
    << NavVersion2, Block2, ContinuationA >>,
    << NavVersion2, EndOfHeader, Block2, ContinuationB, ContinuationB, ContinuationA,
       ContinuationA, ContinuationShort, Block2Twelve, ContinuationA >>,
    << NavVersion3, EndOfHeader, Block3, ContinuationA, ContinuationB, ContinuationShort,
       ContinuationB, Block3Again, ContinuationB, ContinuationA >> }

NavigationFiles == NavigationFilesBoth \cup NavigationFilesNamed

(***************************************************************************)
(* A call of parseRinexNavigation, one action per branch of the loop body. *)
(***************************************************************************)
NavLine == navRun.lines[navRun.i + 1]

NavAt(branch) ==
  /\ navRun # Idle
  /\ ~navRun.returned
  /\ navRun.i < Len(navRun.lines)
  /\ NavigationBranch(navRun, NavLine) = branch

NavCall ==
  /\ obsRun = Idle
  /\ navRun = Idle
  /\ navRun' \in {NavigationStart(lines) : lines \in NavigationFiles}
  /\ UNCHANGED << request, response, invoked, generated, obsRun, page, app >>

NavBlank ==
  /\ NavAt("blank")
  /\ navRun' = [navRun EXCEPT !.i = navRun.i + 1]
  /\ UNCHANGED << request, response, invoked, generated, obsRun, page, app >>

NavHeader ==
  /\ NavAt("header")
  /\ navRun' = NavigationHeaderLine(navRun, NavLine)
  /\ UNCHANGED << request, response, invoked, generated, obsRun, page, app >>

NavBlock ==
  /\ NavAt("block")
  /\ navRun' = NavigationBodyLine(navRun, NavLine)
  /\ UNCHANGED << request, response, invoked, generated, obsRun, page, app >>

NavData ==
  /\ NavAt("data")
  /\ navRun' = NavigationBodyLine(navRun, NavLine)
  /\ UNCHANGED << request, response, invoked, generated, obsRun, page, app >>

NavIgnored ==
  /\ NavAt("ignored")
  /\ navRun' = NavigationBodyLine(navRun, NavLine)
  /\ UNCHANGED << request, response, invoked, generated, obsRun, page, app >>

NavReturn ==
  /\ navRun # Idle
  /\ ~navRun.returned
  /\ navRun.i = Len(navRun.lines)
  /\ navRun' = NavigationReturn(navRun)
  /\ UNCHANGED << request, response, invoked, generated, obsRun, page, app >>

parseRinexNavigation ==
  \/ NavCall
  \/ NavBlank
  \/ NavHeader
  \/ NavBlock
  \/ NavData
  \/ NavIgnored
  \/ NavReturn

(***************************************************************************)
(* The two parsers on their own: one call of one of them on one file.      *)
(***************************************************************************)
NextParse == parseRinexObservation \/ parseRinexNavigation

SpecParse == Init /\ [][NextParse]_vars

(***************************************************************************)
(* The two front ends.  A call of an upload handler runs up to its first   *)
(* await in the event that started it; each later step is the continuation *)
(* after an await.  React renders the state updates of an event before the *)
(* next event is dispatched, so a control is disabled for an event exactly *)
(* when its `disabled' expression holds in the state.  The position of a   *)
(* call is "fetch" while fetch is pending, "json" ("errorJson") while the   *)
(* body of an OK (non-OK) response is read, "done" when it has returned.   *)
(***************************************************************************)
server == << request, response, invoked, generated, obsRun, navRun >>

\* the calls of a component that are at a position
At(component, position) ==
  {c \in 1..Len(component.calls) : component.calls[c] = position}

(***************************************************************************)
(* page.tsx: SpoofingDetection.                                            *)
(***************************************************************************)
\* the button without its `loading' term
PageEnabledFilesOnly == page.obsFile /\ page.navFile

\* the button "Analyze Files for Spoofing" is not disabled
PageEnabled == page.obsFile /\ page.navFile /\ ~page.loading

\* onChange of the two file inputs: a file, or null
PageChooseFile ==
  /\ \E input \in {"obsFile", "navFile"}, file \in BOOLEAN :
       page' = [page EXCEPT ![input] = file]
  /\ UNCHANGED << server, app >>

\* handleFileUpload up to await fetch(...)
handleFileUpload(st) ==
  IF ~st.obsFile \/ ~st.navFile
  THEN [st EXCEPT !.error = "Please select both observation and navigation files"]
  ELSE [st EXCEPT !.loading = TRUE,
                  !.progress = 0,
                  !.error = Null,
                  !.calls = Append(@, "fetch"),
                  !.intervals = @ \cup {Len(st.calls) + 1}]

\* a click on the button
PageClick ==
  /\ PageEnabled
  /\ Len(page.calls) < MaxUploads
  /\ page' = handleFileUpload(page)
  /\ UNCHANGED << server, app >>

\* the callback of a running interval: setProgress(prev => min(prev + 8, 90))
PageTick ==
  /\ page.intervals # {}
  /\ page' = [page EXCEPT !.progress = Min(@ + ProgressStep, ProgressCeiling)]
  /\ UNCHANGED << server, app >>

\* catch and finally: setError(message), setLoading(false)
PageCatch(st, c, message) ==
  [st EXCEPT !.error = message, !.loading = FALSE, !.calls[c] = "done"]

\* fetch resolves with a response: clearInterval, setProgress(100)
PageFetchResolved ==
  /\ \E c \in At(page, "fetch"), ok \in BOOLEAN :
       page' = [page EXCEPT !.intervals = @ \ {c},
                            !.progress = ProgressDone,
                            !.calls[c] = IF ok THEN "json" ELSE "errorJson"]
  /\ UNCHANGED << server, app >>

\* fetch rejects: control goes to catch
PageFetchRejected ==
  /\ \E c \in At(page, "fetch") : page' = PageCatch(page, c, "Failed to fetch")
  /\ UNCHANGED << server, app >>

\* the body of an OK response: setResults(data), or json() rejects
PageBodyRead ==
  /\ \E c \in At(page, "json"), parsed \in BOOLEAN :
       page' = IF parsed
               THEN [page EXCEPT !.results = "data", !.loading = FALSE, !.calls[c] = "done"]
               ELSE PageCatch(page, c, "Unexpected token")
  /\ UNCHANGED << server, app >>

\* the body of a non-OK response: throw new Error(errorData.error ||
\* "Processing failed"), or json() rejects
PageErrorRead ==
  /\ \E c \in At(page, "errorJson"),
        message \in {"Failed to process RINEX files", "Processing failed", "Unexpected token"} :
       page' = PageCatch(page, c, message)
  /\ UNCHANGED << server, app >>

(***************************************************************************)
(* App.js: App.                                                            *)
(***************************************************************************)
\* the button "Upload & Analyze" is not disabled
AppEnabled == ~app.loading

\* handleFileChange on the two file inputs: files[0], or undefined
AppChooseFile ==
  /\ \E input \in {"obsFile", "navFile"}, file \in BOOLEAN :
       app' = [app EXCEPT ![input] = file]
  /\ UNCHANGED << server, page >>

\* handleSubmit up to await fetch(...)
handleSubmit(st) ==
  IF ~st.obsFile \/ ~st.navFile
  THEN [st EXCEPT !.error = "Please select both .obs and .nav files."]
  ELSE [st EXCEPT !.loading = TRUE,
                  !.error = Null,
                  !.results = Null,
                  !.calls = Append(@, "fetch")]

\* the form is submitted
AppSubmit ==
  /\ AppEnabled
  /\ Len(app.calls) < MaxUploads
  /\ app' = handleSubmit(app)
  /\ UNCHANGED << server, page >>

\* catch, then the statement after the try: setError, setLoading(false)
AppCatch(st, c) ==
  [st EXCEPT !.error = "Network or server error.", !.loading = FALSE, !.calls[c] = "done"]

\* fetch resolves with a response
AppFetchResolved ==
  /\ \E c \in At(app, "fetch"), ok \in BOOLEAN :
       app' = [app EXCEPT !.calls[c] = IF ok THEN "json" ELSE "errorJson"]
  /\ UNCHANGED << server, page >>

\* fetch rejects
AppFetchRejected ==
  /\ \E c \in At(app, "fetch") : app' = AppCatch(app, c)
  /\ UNCHANGED << server, page >>

\* the body of an OK response: setResults(data), or json() rejects
AppBodyRead ==
  /\ \E c \in At(app, "json"), parsed \in BOOLEAN :
       app' = IF parsed
              THEN [app EXCEPT !.results = "data", !.loading = FALSE, !.calls[c] = "done"]
              ELSE AppCatch(app, c)
  /\ UNCHANGED << server, page >>

\* the body of a non-OK response: setError(data.error || 'Processing
\* failed.'), or json() rejects
AppErrorRead ==
  /\ \E c \in At(app, "errorJson"), parsed \in BOOLEAN :
       app' = IF parsed
              THEN [app EXCEPT !.error = "Processing failed.", !.loading = FALSE,
                               !.calls[c] = "done"]
              ELSE AppCatch(app, c)
  /\ UNCHANGED << server, page >>

NextUpload ==
  \/ PageChooseFile
  \/ PageClick
  \/ PageTick
  \/ PageFetchResolved
  \/ PageFetchRejected
  \/ PageBodyRead
  \/ PageErrorRead
  \/ AppChooseFile
  \/ AppSubmit
  \/ AppFetchResolved
  \/ AppFetchRejected
  \/ AppBodyRead
  \/ AppErrorRead

SpecUpload == Init /\ [][NextUpload]_vars


(***************************************************************************)
(* Properties.                                                             *)
(***************************************************************************)
Answered == response # NoResponse
Ok == Answered /\ response.status = 200
Body == response.body

\* C1: two runs of the pipeline on the same request return the same
\* response: every field of the result is a function of the input only.
C1_SameInputSameResult ==
  [][(request' = request /\ response # NoResponse /\ response' # NoResponse)
        => response' = response]_vars

\* C2: spoofingProbability = clamp(5 |flaggedEpochs| + 20 |positionJumps|
\* + 15 U, 5, 95), U the number of satelliteHealth entries with health < 0.5;
\* no other term contributes.
C2_ProbabilityFormula ==
  Ok =>
    LET u == Cardinality({j \in 1..Len(Body.satelliteHealth) :
                            Body.satelliteHealth[j].health < 5000})
        s == 5 * Len(Body.flaggedEpochs) + 20 * Len(Body.positionJumps) + 15 * u
    IN  Body.spoofingProbability = Min(95, Max(5, s))

\* the bucket of a reported probability, as the specification defines it
Bucket(p) ==
  IF p < 25 THEN "LOW"
  ELSE IF p < 50 THEN "MEDIUM"
  ELSE IF p < 75 THEN "HIGH"
  ELSE "CRITICAL"

\* C3: threatLevel is the bucket of the spoofingProbability reported in the
\* same result, and the code's if-chain maps every value of 5..95 to the
\* bucket the specification names (24 LOW, 25 MEDIUM, 49 MEDIUM, 74 HIGH,
\* 75 CRITICAL).
C3_ThreatBucket ==
  Ok =>
    /\ Body.threatLevel = Bucket(Body.spoofingProbability)
    /\ \A p \in 5..95 : ThreatLevel(10 * p) = Bucket(p)

C3_Witness ==
  /\ Ok
  /\ Body.threatLevel = "CRITICAL"
  /\ Body.spoofingProbability \in 75..95

\* C4: positionJumps holds only epochs i >= 1 whose fix is more than 100 m
\* from the fix of epoch i - 1; when all consecutive fixes are closer than
\* that, positionJumps is empty.  The fixes are the ones the detector read.
C4_OnlyRealJumps ==
  Ok =>
    /\ \A k \in 1..Len(Body.positionJumps) :
         LET i == Body.positionJumps[k]
         IN  /\ i >= 1
             /\ i + 1 \in DOMAIN generated
             /\ Distance2(generated[i + 1], generated[i]) > 4000 * 4000
    /\ (\A i \in 1..(Len(generated) - 1) :
          Distance2(generated[i + 1], generated[i]) < 4000 * 4000)
         => Body.positionJumps = <<>>

\* C5: every epoch i >= 1 whose returned fix is more than 100 m from the
\* returned fix of epoch i - 1 is listed in positionJumps.
C5_EveryJumpListed ==
  Ok =>
    \A i \in 1..(Len(Body.positionData) - 1) :
      Distance2(Body.positionData[i + 1], Body.positionData[i]) > 4000 * 4000
        => i \in Range(Body.positionJumps)

\* the satellites of a parsed epoch that have a non-zero pseudorange and an
\* ephemeris record
Usable(epoch, ephemeris) ==
  {m \in 1..Len(epoch.satellites) :
     /\ epoch.satellites[m].pseudorange # 0
     /\ \E n \in 1..Len(ephemeris) :
          ephemeris[n].satellite = epoch.satellites[m].satellite}

\* C6: for every parsed epoch with fewer than 4 usable satellites the PDOP
\* is reported as undefined (not a number of any kind) and the epoch is in
\* neither highPdop nor positionJumps.
C6_FewSatellitesNoPdop ==
  Ok =>
    \A i \in 0..(Len(request.observations) - 1) :
      Cardinality(Usable(request.observations[i + 1], request.ephemeris)) < 4
        => /\ Body.pdopValues[i + 1] \notin Int
           /\ i \notin Range(Body.highPdop)
           /\ i \notin Range(Body.positionJumps)

\* C7: when parsing yields fewer epochs than the generator wants, the
\* response holds no epoch, fix, PDOP or satellite beyond what was parsed
\* and is marked as an insufficient-data result.
C7_NoFabrication ==
  (Ok /\ Len(request.observations) < 50) =>
    LET n == Len(request.observations)
        observed == UNION {{request.observations[k].satellites[m].satellite :
                              m \in 1..Len(request.observations[k].satellites)} :
                           k \in 1..n}
    IN  /\ Body.processingInfo.totalEpochs <= n
        /\ Len(Body.positionData) <= n
        /\ Len(Body.pdopValues) <= n
        /\ Len(Body.signalData) <= n
        /\ \A j \in 1..Len(Body.satelliteHealth) : Body.satelliteHealth[j].sv \in observed
        /\ Range(Body.flaggedEpochs) \subseteq 0..(n - 1)
        /\ \E f \in DOMAIN Body : f \in {"insufficientData", "confidence"}

\* C8: a request with a missing file, or with observation or navigation
\* content shorter than 100 characters, is answered 400 with an error text
\* before any parser or the generator is called; the observation check comes
\* first; a request that passes the three checks is never answered 400.
C8_InputRejection ==
  Answered =>
    LET missing == ~request.obsFile \/ ~request.navFile
        obsShort == request.obsLength < 100
        navShort == request.navLength < 100
    IN  /\ (missing \/ obsShort \/ navShort) =>
              /\ response.status = 400
              /\ "error" \in DOMAIN Body
              /\ Body.error # ""
              /\ invoked = <<>>
        /\ (~missing /\ obsShort) =>
              Body = [error |-> "Observation file appears to be too small or empty"]
        /\ (~missing /\ ~obsShort /\ navShort) =>
              Body = [error |-> "Navigation file appears to be too small or empty"]
        /\ ~(missing \/ obsShort \/ navShort) => response.status # 400

C8_Witness ==
  /\ Answered
  /\ request.obsFile /\ request.navFile
  /\ request.obsLength < 100
  /\ request.navLength < 100
  /\ response.status = 400

\* C9: flaggedEpochs is the set union of positionJumps and highPdop, and no
\* epoch occurs in it twice.
C9_FlaggedIsUnion ==
  Ok =>
    /\ Range(Body.flaggedEpochs) = Range(Body.positionJumps) \cup Range(Body.highPdop)
    /\ \A a, b \in 1..Len(Body.flaggedEpochs) :
         Body.flaggedEpochs[a] = Body.flaggedEpochs[b] => a = b

C9_Witness ==
  /\ Ok
  /\ Body.highPdop # <<>>
  /\ Body.positionJumps # <<>>
  /\ Len(Body.flaggedEpochs) = Len(Body.highPdop) + Len(Body.positionJumps)

\* C10: the epochs of flaggedEpochs appear in strictly increasing order.
C10_FlaggedAscending ==
  Ok =>
    \A k \in 1..(Len(Body.flaggedEpochs) - 1) :
      Body.flaggedEpochs[k] < Body.flaggedEpochs[k + 1]

(***************************************************************************)
(* The parsers' claims.  A returned call is a call whose result is in      *)
(* observations (ephemeris).                                               *)
(***************************************************************************)
ObsReturned == obsRun # Idle /\ obsRun.returned
NavReturned == navRun # Idle /\ navRun.returned

\* the number 0
Zero == Num(0, 0)

\* the observation files of the end-to-end example: version 2.11, the one
\* type C1, one epoch line for G01 (its satellite list glued to the count as
\* RINEX 2 writes it, or set apart from it), the field 20123456.789
EndToEndFiles ==
  { << Version2, TypesC1, EndOfHeader, EpochGlued2, DataOne2 >>,
    << Version2, TypesC1, EndOfHeader, EpochSpaced2, DataOne2 >> }

\* C11: the end-to-end example parses to exactly one epoch with exactly one
\* satellite observation: G01, pseudorange 20123456.789, and carrierPhase,
\* doppler and snr all 0.
C11_EndToEnd ==
  (ObsReturned /\ obsRun.lines \in EndToEndFiles) =>
    /\ Len(obsRun.observations) = 1
    /\ obsRun.observations[1].satellites =
         << [satellite |-> "G01", pseudorange |-> Num(20123456, 789),
             carrierPhase |-> Zero, doppler |-> Zero, snr |-> Zero] >>

\* the field an observation code names, by its leading character
NamedField(obsType) ==
  IF startsWith(obsType, "C") \/ startsWith(obsType, "P") THEN "pseudorange"
  ELSE IF startsWith(obsType, "L") THEN "carrierPhase"
  ELSE IF startsWith(obsType, "D") THEN "doppler"
  ELSE IF startsWith(obsType, "S") THEN "snr"
  ELSE "none"

Fields == {"pseudorange", "carrierPhase", "doppler", "snr"}

\* the tokens after the satellite id of a version 3 satellite line
Tokens3(line) == split(trim(substring(line, 3, Len(line))))

\* the positions of the tokens of a version 3 satellite line that are
\* numbers and whose code names the field
Valued3(observationTypes, line, field) ==
  {j \in 1..Min(Len(observationTypes), Len(Tokens3(line))) :
     /\ NamedField(observationTypes[j]) = field
     /\ ~parseFloat(Tokens3(line)[j]).nan}

\* the last satellite observation of the epoch being read
LastRead(run) == run.epochData[Len(run.epochData)]

\* the line after the one the loop is at holds observation values
DataFollows ==
  /\ obsRun.i + 1 < Len(obsRun.lines)
  /\ ~EpochLineTest(obsRun.lines[obsRun.i + 2])
  /\ DataLineTest(obsRun.lines[obsRun.i + 2])

\* C12: a field of a satellite observation that has no value in the input,
\* or whose token is not a number, is exactly 0, in both grammars: after a
\* version 3 satellite line every field without a numeric token is 0, and
\* the satellites an epoch line of version 2 lists have every field 0 when
\* no line of values follows.
C12_MissingIsZero ==
  [][/\ ObsAt("satellite3") =>
          \A field \in Fields :
            Valued3(obsRun.observationTypes, ObsLine, field) = {}
              => LastRead(obsRun')[field] = Zero
     /\ (ObsAt("epoch2") /\ ~DataFollows) =>
          \A m \in 1..Len(obsRun'.epochData) :
            \A field \in Fields : obsRun'.epochData[m][field] = Zero]_vars

\* the index of the first line after the header: the line after the first
\* one that holds END OF HEADER, past the end when no line does
RECURSIVE BodyFrom(_, _)
BodyFrom(lines, j) ==
  IF j > Len(lines) THEN j
  ELSE IF trim(lines[j]) # "" /\ includes(lines[j], "END OF HEADER") THEN j + 1
  ELSE BodyFrom(lines, j + 1)

\* line j, a line after the header of a returned observation file, is an
\* epoch header line
EpochHeaderAt(run, j) ==
  /\ trim(run.lines[j]) # ""
  /\ IF run.rinexVersion.whole >= 3 THEN startsWith(run.lines[j], ">")
     ELSE EpochLineTest(run.lines[j])

\* the epoch header lines among the lines from..i, in file order
RECURSIVE EpochHeadersTo(_, _, _)
EpochHeadersTo(run, from, i) ==
  IF i < from THEN <<>>
  ELSE EpochHeadersTo(run, from, i - 1)
         \o (IF EpochHeaderAt(run, i) THEN << i >> ELSE <<>>)

\* the epoch header lines of the file, in file order
EpochHeaders(run) == EpochHeadersTo(run, BodyFrom(run.lines, 1), Len(run.lines))

\* the number of satellite records accepted under the header at line h: in
\* version 3 the satellite lines up to the next header, in version 2 the
\* satellites the header line lists
AcceptedUnder(run, h) ==
  IF run.rinexVersion.whole >= 3
  THEN Cardinality({j \in (h + 1)..Len(run.lines) :
                      /\ \A g \in (h + 1)..j : ~EpochHeaderAt(run, g)
                      /\ trim(run.lines[j]) # ""
                      /\ Len(run.lines[j]) > 3
                      /\ SatelliteIdTest(trim(run.lines[j]))})
  ELSE Len(ListedSatellites2(run.lines[h]))

\* the epoch headers under which a record was accepted, in file order
EmittingHeaders(run) ==
  LET headers == EpochHeaders(run)
  IN  Pick(headers, {m \in 1..Len(headers) : AcceptedUnder(run, headers[m]) > 0})

\* the epoch record of the header at line h
EpochUnder(run, h) ==
  IF run.rinexVersion.whole >= 3 THEN Epoch3(run.lines[h]) ELSE Epoch2(run.lines[h])

\* C13: an epoch is emitted exactly for each epoch header line under which
\* at least one satellite record was accepted before the next header line or
\* the end of the file; headers with no accepted satellite give no entry,
\* and the epochs are in file order.
C13_EpochsEmitted ==
  /\ obsRun # Idle =>
       \A m \in 1..Len(obsRun.observations) :
         Len(obsRun.observations[m].satellites) > 0
  /\ ObsReturned =>
       LET emitting == EmittingHeaders(obsRun)
       IN  /\ Len(obsRun.observations) = Len(emitting)
           /\ \A m \in 1..Len(emitting) :
                /\ obsRun.observations[m].epoch = EpochUnder(obsRun, emitting[m])
                /\ Len(obsRun.observations[m].satellites)
                     = AcceptedUnder(obsRun, emitting[m])

\* a returned call that emitted two epochs and passed over a header with no
\* satellite under it
C13_Witness ==
  /\ ObsReturned
  /\ Len(obsRun.observations) >= 2
  /\ Len(EpochHeaders(obsRun)) > Len(obsRun.observations)
  /\ obsRun.observations[1].epoch # obsRun.observations[2].epoch

\* no line of the file holds the END OF HEADER sentinel
NoSentinel(lines) == \A j \in 1..Len(lines) : ~includes(lines[j], "END OF HEADER")

\* the file has an epoch header line of one of the two grammars with a
\* satellite in it or a satellite line after it
EpochWithSatellite(lines) ==
  \E h \in 1..Len(lines) :
    \/ /\ startsWith(lines[h], ">")
       /\ \E j \in (h + 1)..Len(lines) : SatelliteIdTest(trim(lines[j]))
    \/ /\ EpochLineTest(lines[h])
       /\ Len(ListedSatellites2(lines[h])) > 0

\* C14: a file with no END OF HEADER line is read as body text: its epoch
\* header and satellite lines still produce epochs.
C14_NoSentinelStillParses ==
  (ObsReturned /\ NoSentinel(obsRun.lines) /\ EpochWithSatellite(obsRun.lines))
    => Len(obsRun.observations) >= 1

\* the year the pivot rule gives a two-digit year
Pivoted(y) == IF y < 80 THEN 2000 + y ELSE 1900 + y

\* the text is two digits
TwoDigits(s) == Len(s) = 2 /\ IsDigit(charAt(s, 0)) /\ IsDigit(charAt(s, 1))

\* the last of the lines 1..j that has the shape of a version 2 epoch line,
\* 0 when none
RECURSIVE LastEpochLine(_, _)
LastEpochLine(lines, j) ==
  IF j = 0 THEN 0
  ELSE IF trim(lines[j]) # "" /\ EpochLineTest(lines[j]) THEN j
  ELSE LastEpochLine(lines, j - 1)

\* the last of the lines 1..j that has the shape of a version 2 ephemeris
\* header line, 0 when none
RECURSIVE LastNavLine(_, _)
LastNavLine(lines, j) ==
  IF j = 0 THEN 0
  ELSE IF trim(lines[j]) # "" /\ Len(lines[j]) > 2 /\ NavLineTest(lines[j]) THEN j
  ELSE LastNavLine(lines, j - 1)

\* C15: a two-digit year y of a version 2 observation epoch line or of a
\* version 2 navigation header line is stored as 2000+y when y < 80 and as
\* 1900+y when 80 <= y < 100, in both parsers: the pivot of each parser
\* agrees with the rule on 0..99, and the year of the epoch (of the toc) being
\* read is the pivoted year token of the line that opened it.
C15_YearPivot ==
  /\ (obsRun # Idle /\ obsRun.rinexVersion.whole < 3 /\ obsRun.currentEpoch # NoEpoch) =>
       /\ \A y \in 0..99 : PivotYear(Num(y, 0)) = Num(Pivoted(y), 0)
       /\ LET token == Part(split(trim(obsRun.lines[LastEpochLine(obsRun.lines, obsRun.i)])), 0)
          IN  TwoDigits(token) =>
                obsRun.currentEpoch.year = Num(Pivoted(parseInt(token).whole), 0)
  /\ (navRun # Idle /\ navRun.rinexVersion.whole < 3 /\ navRun.currentSat # "") =>
       /\ \A y \in 0..99 : NavigationPivotYear(Num(y, 0)) = Num(Pivoted(y), 0)
       /\ LET token == Part(split(trim(navRun.lines[LastNavLine(navRun.lines, navRun.i)])), 1)
          IN  TwoDigits(token) =>
                navRun.satData["toc"].year = Num(Pivoted(parseInt(token).whole), 0)

\* the years of the examples are stored by both parsers
C15_Witness ==
  \/ /\ ObsReturned
     /\ obsRun.lines = << Version2, TypesFour2, EndOfHeader, Epoch79, Epoch85, Epoch00 >>
     /\ obsRun.currentEpoch.year = Num(2000, 0)
  \/ /\ NavReturned
     /\ Len(navRun.ephemeris) = 3
     /\ navRun.ephemeris[1]["toc"].year = Num(2079, 0)
     /\ navRun.ephemeris[2]["toc"].year = Num(2000, 0)
     /\ navRun.ephemeris[3]["toc"].year = Num(1985, 0)

\* the value a version 3 satellite line gives a field: that of the last
\* token whose code names the field (the tokens are assigned in order)
Assigned3(observationTypes, line, field) ==
  LET n == Min(Len(observationTypes), Len(Tokens3(line)))
      named == {j \in 1..n : NamedField(observationTypes[j]) = field}
  IN  parseFloat(Tokens3(line)[Greatest(named)])

\* C16: on a version 3 satellite line the j-th token goes to the field the
\* leading character of the j-th observation code names (C or P pseudorange,
\* L carrierPhase, D doppler, S snr, for every code), and the tokens beyond
\* the type list are ignored: every field some code of the first
\* min(codes, tokens) positions names, and whose last such token is a
\* non-zero number, holds that number.
C16_MappedByLeadingCharacter ==
  [][ObsAt("satellite3") =>
       \A field \in Fields :
         LET n == Min(Len(obsRun.observationTypes), Len(Tokens3(ObsLine)))
             named == {j \in 1..n : NamedField(obsRun.observationTypes[j]) = field}
         IN  (named # {} /\ Truthy(Assigned3(obsRun.observationTypes, ObsLine, field)))
               => LastRead(obsRun')[field]
                    = Assigned3(obsRun.observationTypes, ObsLine, field)]_vars

\* the k-th 16-character field of a version 2 line of values (k from 1)
Field2(line, k) == trim(substring(line, 16 * (k - 1), 16 * k))

\* C17: on a version 2 line of values the k-th 16-character field goes to
\* the observable the k-th observation code names, whatever the order of
\* the codes: after the line, every field of the satellite it belongs to
\* that a code of a position with a non-zero number names holds that number.
C17_PositionalByHeaderOrder ==
  [][(ObsAt("data2") /\ Len(obsRun.epochData) > 0) =>
       \A k \in 1..Len(obsRun.observationTypes) :
         (NamedField(obsRun.observationTypes[k]) \in Fields
            /\ Truthy(parseFloat(Field2(ObsLine, k))))
           => LastRead(obsRun')[NamedField(obsRun.observationTypes[k])]
                = parseFloat(Field2(ObsLine, k))]_vars

\* line j, a line after the header of a navigation file, is an ephemeris
\* header line
BlockHeaderAt(run, j) ==
  /\ trim(run.lines[j]) # ""
  /\ NavigationHeaderTest(run.rinexVersion, run.lines[j])

\* the ephemeris header lines among the lines from..i, in file order
RECURSIVE BlockHeadersTo(_, _, _)
BlockHeadersTo(run, from, i) ==
  IF i < from THEN <<>>
  ELSE BlockHeadersTo(run, from, i - 1)
         \o (IF BlockHeaderAt(run, i) THEN << i >> ELSE <<>>)

\* the ephemeris header lines among the lines 1..i, in file order
BlockHeaders(run, i) == BlockHeadersTo(run, BodyFrom(run.lines, 1), i)

\* the satellite id and the toc of the header at line h
BlockSatellite(run, h) ==
  IF run.rinexVersion.whole >= 3 THEN substring(run.lines[h], 0, 3)
  ELSE SatelliteName(parseInt(Part(split(trim(run.lines[h])), 0)))

BlockToc(run, h) ==
  IF run.rinexVersion.whole >= 3 THEN SatData3(run.lines[h])["toc"]
  ELSE SatData2(run.lines[h])["toc"]

\* C18: parseRinexNavigation returns exactly one record per ephemeris
\* header line found after the header, in input order: while the file is
\* read every header line but the last one read has its record in ephemeris,
\* the end of input adds the last one, and record m carries the satellite id
\* and the toc of the m-th header line, so that records of one satellite
\* (with different or equal toc) are all kept.
C18_OneRecordPerBlock ==
  navRun # Idle =>
    LET headers == BlockHeaders(navRun, navRun.i)
        flushed == IF navRun.returned THEN Len(headers) ELSE Max(0, Len(headers) - 1)
    IN  /\ Len(navRun.ephemeris) = flushed
        /\ \A m \in 1..flushed :
             /\ navRun.ephemeris[m]["satellite"] = BlockSatellite(navRun, headers[m])
             /\ navRun.ephemeris[m]["toc"] = BlockToc(navRun, headers[m])

\* a returned call with three records of one satellite, two of them with
\* the same toc
C18_Witness ==
  /\ NavReturned
  /\ Len(navRun.ephemeris) = 3
  /\ \A m \in 1..3 : navRun.ephemeris[m]["satellite"] = "G01"
  /\ navRun.ephemeris[1]["toc"] # navRun.ephemeris[2]["toc"]
  /\ \E m \in 1..2 : navRun.ephemeris[m]["toc"] = navRun.ephemeris[m + 1]["toc"]

\* the continuation lines of the block whose header is at line h: the
\* non-blank lines after it, up to the next header line of the grammar of
\* the file or the end of the file, in file order
RECURSIVE ContinuationLines(_, _)
ContinuationLines(run, j) ==
  IF j > Len(run.lines) \/ BlockHeaderAt(run, j) THEN <<>>
  ELSE (IF trim(run.lines[j]) # "" THEN << j >> ELSE <<>>)
         \o ContinuationLines(run, j + 1)

\* the three groups of four fields, in the order of the lines that fill them
Groups ==
  << << "iode", "crs", "deltaN", "m0" >>,
     << "cuc", "e", "cus", "sqrtA" >>,
     << "toe", "cic", "omega0", "cis" >> >>

\* C19: in a block the first continuation line fills iode/crs/deltaN/m0,
\* the second cuc/e/cus/sqrtA, the third toe/cic/omega0/cis, whatever the
\* values on the lines; the count restarts at every header line and the
\* lines after the third change none of the twelve fields: in record m of a
\* returned call, group g holds the four values of the g-th continuation
\* line of the m-th block, and is absent when the block has no such line.
C19_GroupByPosition ==
  NavReturned =>
    LET headers == BlockHeaders(navRun, Len(navRun.lines))
    IN  \A m \in 1..Min(Len(headers), Len(navRun.ephemeris)) :
          LET following == ContinuationLines(navRun, headers[m] + 1)
              record == navRun.ephemeris[m]
          IN  \A g \in 1..3 : \A k \in 1..4 :
                IF g <= Len(following)
                THEN /\ Groups[g][k] \in DOMAIN record
                     /\ record[Groups[g][k]] =
                          ValueOrElse(split(trim(navRun.lines[following[g]])), k - 1,
                                      IF Groups[g][k] = "sqrtA" THEN SqrtADefault ELSE Zero)
                ELSE Groups[g][k] \notin DOMAIN record

\* the positions of the recommendations with a given text
Saying(recs, text) == {m \in 1..Len(recs) : recs[m].text = text}

\* the ids of the satellites of a result with health < 0.5, in order
LowHealthIds(satelliteHealth) ==
  LET low == Pick(satelliteHealth,
                  {j \in 1..Len(satelliteHealth) : satelliteHealth[j].health < 5000})
  IN  Array([m \in 1..Len(low) |-> low[m].sv])

\* C20: recommendations follows the fixed rule set: with threatLevel
\* CRITICAL the first one is the immediate-cessation warning; one listing
\* exactly the epochs of positionJumps is there if and only if positionJumps
\* is not empty; one listing exactly the ids of the satellites with health
\* < 0.5 is there if and only if there is such a satellite; they come in
\* that order and the two fixed closing recommendations end the list.
C20_RecommendationRules ==
  Ok =>
    LET recs == Body.recommendations
        n == Len(recs)
        warning == Saying(recs, "CRITICAL THREAT: Immediately cease reliance on GNSS positioning")
        jumps == Saying(recs, "Investigate position jumps at epochs")
        health == Saying(recs, "Monitor suspicious satellites")
    IN  /\ Body.threatLevel = "CRITICAL" => 1 \in warning
        /\ Cardinality(jumps) = IF Len(Body.positionJumps) > 0 THEN 1 ELSE 0
        /\ \A m \in jumps : recs[m].list = Body.positionJumps
        /\ Cardinality(health) = IF Len(LowHealthIds(Body.satelliteHealth)) > 0 THEN 1 ELSE 0
        /\ \A m \in health : recs[m].list = LowHealthIds(Body.satelliteHealth)
        /\ \A w \in warning : \A j \in jumps : w < j
        /\ \A w \in warning : \A h \in health : w < h
        /\ \A j \in jumps : \A h \in health : j < h
        /\ n >= 2
        /\ \A m \in jumps \cup health \cup warning : m < n - 1
        /\ recs[n - 1].text = "Log all anomalies and report to relevant authorities"
        /\ recs[n].text = "Consider implementing additional GNSS authentication measures"

\* a CRITICAL result with jumps and with a satellite of health < 0.5 next to
\* a satellite of health >= 0.5
C20_Witness ==
  /\ Ok
  /\ Body.threatLevel = "CRITICAL"
  /\ Len(Body.positionJumps) > 0
  /\ Len(LowHealthIds(Body.satelliteHealth)) > 0
  /\ Len(LowHealthIds(Body.satelliteHealth)) < Len(Body.satelliteHealth)
  /\ Len(Body.recommendations) = 6


(***************************************************************************)
(* The result: anomalies, processing info, position jumps.                 *)
(***************************************************************************)
\* the records of anomalies with a given type tag
Tagged(anomalies, type) == {m \in 1..Len(anomalies) : anomalies[m].type = type}

\* the severity of a count under thresholds high and medium
Tier(n, high, medium) == IF n > high THEN "High" ELSE IF n > medium THEN "Medium" ELSE "Low"

\* the number of satellites of a result with health < 0.5
LowHealthCount(satelliteHealth) ==
  Cardinality({j \in 1..Len(satelliteHealth) : satelliteHealth[j].health < 5000})

\* C21: each of the three detectors has exactly one record in anomalies;
\* its count is the detector's raw count in the same result (|positionJumps|,
\* |highPdop|, the number of satellites with health < 0.5) and its severity
\* comes from that count by the detector's own thresholds (jumps > 2 High,
\* > 0 Medium; PDOP > 10 High, > 5 Medium; health > 3 High, > 1 Medium; else
\* Low), which the code's three expressions follow on every count.
C21_OneAnomalyPerDetector ==
  Ok =>
    LET a == Body.anomalies
        jump == Tagged(a, "Position Jump")
        pdop == Tagged(a, "High PDOP")
        health == Tagged(a, "Satellite Health")
    IN  /\ Cardinality(jump) = 1 /\ Cardinality(pdop) = 1 /\ Cardinality(health) = 1
        /\ \A m \in jump :
             /\ a[m].count = Len(Body.positionJumps)
             /\ a[m].severity = Tier(a[m].count, 2, 0)
        /\ \A m \in pdop :
             /\ a[m].count = Len(Body.highPdop)
             /\ a[m].severity = Tier(a[m].count, 10, 5)
        /\ \A m \in health :
             /\ a[m].count = LowHealthCount(Body.satelliteHealth)
             /\ a[m].severity = Tier(a[m].count, 3, 1)
        /\ \A n \in 0..MinEpochs :
             /\ JumpSeverity(n) = Tier(n, 2, 0)
             /\ PdopSeverity(n) = Tier(n, 10, 5)
             /\ HealthSeverity(n) = Tier(n, 3, 1)

\* a result whose three detectors have three different severities
C21_Witness ==
  /\ Ok
  /\ \E j, p, h \in 1..Len(Body.anomalies) :
       /\ Body.anomalies[j].type = "Position Jump" /\ Body.anomalies[j].severity = "High"
       /\ Body.anomalies[p].type = "High PDOP" /\ Body.anomalies[p].severity = "Low"
       /\ Body.anomalies[h].type = "Satellite Health"
       /\ Body.anomalies[h].severity = "Medium"

\* C22: processingInfo.totalEpochs is the number of epochs
\* parseRinexObservation emitted for the request, and pdopValues,
\* positionData and signalData hold one entry for each such epoch, with
\* positionData[i].epoch = i and pdopValues[i] = positionData[i].pdop.
C22_OneEntryPerParsedEpoch ==
  Ok =>
    LET n == Len(request.observations)
    IN  /\ Body.processingInfo.totalEpochs = n
        /\ Len(Body.pdopValues) = n
        /\ Len(Body.positionData) = n
        /\ Len(Body.signalData) = n
        /\ \A j \in 1..Len(Body.positionData) :
             /\ Body.positionData[j].epoch = j - 1
             /\ j <= Len(Body.pdopValues)
             /\ Body.pdopValues[j] = Body.positionData[j].pdop

\* the number of distinct satellite ids in the parsed epochs of the request
ObservedSatellites ==
  LET o == request.observations
  IN  Cardinality(UNION {{o[k].satellites[m].satellite : m \in 1..Len(o[k].satellites)} :
                           k \in 1..Len(o)})

\* C23: processingInfo.totalSatellites is the number of distinct satellites
\* observed in the parsed epochs, and processingInfo.dataQuality is "Good"
\* when that number is at least 8, "Fair" when it is 6 or 7, "Poor"
\* otherwise.
C23_QualityOfObservedSatellites ==
  Ok =>
    /\ Body.processingInfo.totalSatellites = ObservedSatellites
    /\ Body.processingInfo.dataQuality =
         (IF ObservedSatellites >= 8 THEN "Good"
          ELSE IF ObservedSatellites >= 6 THEN "Fair" ELSE "Poor")

\* C28: for every input POST accepts, whatever the parsed epochs and
\* ephemeris, the returned positionJumps is not empty, spoofingProbability
\* is at least 25, threatLevel is never LOW, the Position Jump anomaly
\* never has severity Low, and recommendations holds the position-jump line
\* with the jumps of the result.
C28_AlwaysPositionJumps ==
  Ok =>
    /\ Len(Body.positionJumps) > 0
    /\ Body.spoofingProbability >= 25
    /\ Body.threatLevel # "LOW"
    /\ \A m \in Tagged(Body.anomalies, "Position Jump") : Body.anomalies[m].severity # "Low"
    /\ \E m \in Saying(Body.recommendations, "Investigate position jumps at epochs") :
         Body.recommendations[m].list = Body.positionJumps

\* a result for a request whose files gave no epoch and no ephemeris record,
\* in which no jump was detected among the generated positions
C28_Witness ==
  /\ Ok
  /\ Len(request.observations) = 0
  /\ Len(request.ephemeris) = 0
  /\ DetectJumps(generated) = <<>>
  /\ Body.positionJumps = ArtificialJumps

(***************************************************************************)
(* The parsers: satellites of one epoch, satellite ids.                    *)
(***************************************************************************)
\* the lines from..to all hold observation values
RECURSIVE AllValues(_, _, _)
AllValues(lines, from, to) ==
  IF to < from THEN TRUE
  ELSE /\ trim(lines[to]) # ""
       /\ ~EpochLineTest(lines[to])
       /\ DataLineTest(lines[to])
       /\ AllValues(lines, from, to - 1)

\* C24: in a version 2 file, when an epoch lists several satellites, the
\* k-th line of values after the epoch line updates the record of the k-th
\* listed satellite and no other: that record holds the values of the line
\* and every other record of the epoch is left as it was.
C24_OwnLineOwnSatellite ==
  [][LET e == LastEpochLine(obsRun.lines, obsRun.i)
         k == obsRun.i + 1 - e
     IN  (/\ ObsAt("data2")
          /\ e > 0
          /\ Len(obsRun.epochData) >= 2
          /\ k <= Len(obsRun.epochData)
          /\ AllValues(obsRun.lines, e + 1, obsRun.i))
           => /\ \A m \in 1..Len(obsRun.epochData) :
                   m # k => obsRun'.epochData[m] = obsRun.epochData[m]
              /\ \A j \in 1..Len(obsRun.observationTypes) :
                   (NamedField(obsRun.observationTypes[j]) \in Fields
                      /\ Truthy(parseFloat(Field2(ObsLine, j))))
                     => obsRun'.epochData[k][NamedField(obsRun.observationTypes[j])]
                          = parseFloat(Field2(ObsLine, j))]_vars

\* one constellation letter followed by a two-digit PRN
IdForm(id) ==
  /\ Len(id) = 3
  /\ IsUpper(charAt(id, 0))
  /\ IsDigit(charAt(id, 1))
  /\ IsDigit(charAt(id, 2))

\* C25: every satellite id parseRinexObservation and parseRinexNavigation
\* store is one constellation letter followed by a two-digit PRN, for every
\* accepted line: the ids of the epoch being read and of the emitted epochs,
\* the id of the block being read and of the emitted records.
C25_IdForm ==
  /\ obsRun # Idle =>
       /\ \A m \in 1..Len(obsRun.epochData) : IdForm(obsRun.epochData[m].satellite)
       /\ \A k \in 1..Len(obsRun.observations) :
            \A m \in 1..Len(obsRun.observations[k].satellites) :
              IdForm(obsRun.observations[k].satellites[m].satellite)
  /\ navRun # Idle =>
       /\ navRun.currentSat # "" => IdForm(navRun.currentSat)
       /\ \A m \in 1..Len(navRun.ephemeris) : IdForm(navRun.ephemeris[m]["satellite"])

(***************************************************************************)
(* The front ends.                                                         *)
(***************************************************************************)
\* C26: in page.tsx every progress timer a call of handleFileUpload started
\* is cleared by the time the call finishes, on every path: no interval of
\* a finished call is running, so once loading is back to false no timer
\* callback changes progress.
C26_TimersCleared ==
  /\ \A c \in At(page, "done") : c \notin page.intervals
  /\ ~page.loading => page.intervals = {}

\* the calls of a component that have not returned
InFlight(component) == {c \in 1..Len(component.calls) : component.calls[c] # "done"}

\* a call of the component returns in the step
Returns(before, after) == \E c \in InFlight(before) : after.calls[c] = "done"

\* C27: in both front ends at most one upload is in flight at any time; no
\* upload starts while loading is true; and when an attempt ends, whether
\* it succeeded, got a server error or failed on the network, loading is
\* false, so that the control is enabled again once both files are chosen.
C27_OneUploadAtATime ==
  /\ [](Cardinality(InFlight(page)) <= 1 /\ Cardinality(InFlight(app)) <= 1)
  /\ [](InFlight(page) = {} => ~page.loading)
  /\ [](InFlight(app) = {} => ~app.loading)
  /\ [][/\ Len(page'.calls) > Len(page.calls) => ~page.loading
        /\ Len(app'.calls) > Len(app.calls) => ~app.loading
        /\ Returns(page, page') => ~page'.loading
        /\ Returns(app, app') => ~app'.loading]_vars

\* in both front ends a second upload is in flight after a first one that
\* failed: on the network in page.tsx (its timer was never cleared), with
\* the error the handler of App.js reports
C27_Witness ==
  /\ page.calls = << "done", "fetch" >>
  /\ 1 \in page.intervals
  /\ page.loading
  /\ app.calls = << "done", "fetch" >>
  /\ app.loading

====
